---- MODULE Spec2Model ----
(***************************************************************************)
(* A model of ts_api.py: the timetable scraper (extract_student_info), the *)
(* room enrichment (get_room_details) and the three request handlers       *)
(* (api_login, api_save_token, api_n8n) over the users table.              *)
(*                                                                         *)
(* Text is modelled as a sequence of one-character strings, so that the    *)
(* code's string operations (strip, split, upper, replace, f-string        *)
(* formatting, substring test) are computed as the code computes them.     *)
(* The Thai literals of the source are written as ASCII pieces that name   *)
(* them; a literal of the source is one piece of the sequence.             *)
(***************************************************************************)
EXTENDS Integers, Sequences, FiniteSets, TLC

VARIABLES
    db,            \* the users table: username -> row, or NoRow
    clock,         \* datetime.now(), as a counter of the readings stored
    pc,            \* position of the request being served ("idle": none)
    req,           \* the request being served
    browser,       \* "none" | "open" | "closed": the Chromium instance
    closeCalls,    \* number of browser.close() calls of the current scrape
    playwright,    \* "stopped" | "running": the sync_playwright() block
    flags,         \* what the current scrape has met on the page
    reloads,       \* page.reload() calls of the current scrape
    loginClicks,   \* clicks on the login affordance in the current scrape
    myTable_raw,   \* the legend map read from #myTable
    mainTable_raw, \* the grid rows read from the timetable region
    pending,       \* what extract_student_info is about to hand over
    ret,           \* what extract_student_info handed to its caller
    lastOutcome,   \* [cls, ret] of the scrape finished before this one
    response,      \* the last HTTP response sent, and the request it answers
    assets,        \* the file names present in static/maps
    BASE_DIR,      \* the directory of the program file (line 35)
    elsewhere,     \* the files and directories outside that listing
    RENDER_EXTERNAL_URL, \* the environment variable of line 83
    scrapes,       \* the locals of the scrapes that run side by side
    txn,           \* the database sessions of the requests in flight
    requests,      \* the requests that have arrived so far
    digest         \* the last answer of GET /daily-schedule-all

vars == <<db, clock, pc, req, browser, closeCalls, playwright, flags, reloads,
          loginClicks, myTable_raw, mainTable_raw, pending, ret, lastOutcome,
          response, assets, BASE_DIR, elsewhere, RENDER_EXTERNAL_URL,
          scrapes, txn, requests, digest>>

(***************************************************************************)
(* Bounds of the model.                                                    *)
(***************************************************************************)
MaxCells == 3      \* grid cells (token lists) on one timetable page
MaxClock == 2      \* readings of datetime.now() in one behaviour
MaxRequests == 2   \* requests that arrive in one behaviour

(***************************************************************************)
(* Text helpers.                                                           *)
(***************************************************************************)
Dash == <<"-">>

\* The characters str.isspace() holds for.  A character outside ASCII, or
\* one a string literal cannot hold, is written by its code point.
Whitespace ==
    { " ", "\t", "\n", "\r", "\f", "U+000B", "U+001C", "U+001D", "U+001E",
      "U+001F", "U+0085", "U+00A0", "U+1680", "U+2000", "U+2001", "U+2002",
      "U+2003", "U+2004", "U+2005", "U+2006", "U+2007", "U+2008", "U+2009",
      "U+200A", "U+2028", "U+2029", "U+202F", "U+205F", "U+3000" }

IsSpace(c) == c \in Whitespace

\* str.strip(): leading and trailing whitespace removed.
RECURSIVE LStrip(_)
LStrip(s) == IF s # <<>> /\ IsSpace(Head(s)) THEN LStrip(Tail(s)) ELSE s

RECURSIVE RStrip(_)
RStrip(s) ==
    IF s # <<>> /\ IsSpace(s[Len(s)]) THEN RStrip(SubSeq(s, 1, Len(s) - 1))
    ELSE s

Strip(s) == LStrip(RStrip(s))

\* str.upper() of every character it changes: the character and the text
\* it becomes, after the case mappings of the Unicode database of the
\* interpreter (14.0.0).  The default mapping has no condition on the
\* neighbours of a character.
UpperTable ==
    {
      <<"a", <<"A">>>>, <<"b", <<"B">>>>, <<"c", <<"C">>>>, <<"d", <<"D">>>>,
      <<"e", <<"E">>>>, <<"f", <<"F">>>>, <<"g", <<"G">>>>, <<"h", <<"H">>>>,
      <<"i", <<"I">>>>, <<"j", <<"J">>>>, <<"k", <<"K">>>>, <<"l", <<"L">>>>,
      <<"m", <<"M">>>>, <<"n", <<"N">>>>, <<"o", <<"O">>>>, <<"p", <<"P">>>>,
      <<"q", <<"Q">>>>, <<"r", <<"R">>>>, <<"s", <<"S">>>>, <<"t", <<"T">>>>,
      <<"u", <<"U">>>>, <<"v", <<"V">>>>, <<"w", <<"W">>>>, <<"x", <<"X">>>>,
      <<"y", <<"Y">>>>, <<"z", <<"Z">>>>, <<"U+00B5", <<"U+039C">>>>,
      <<"U+00DF", <<"S", "S">>>>, <<"U+00E0", <<"U+00C0">>>>,
      <<"U+00E1", <<"U+00C1">>>>, <<"U+00E2", <<"U+00C2">>>>,
      <<"U+00E3", <<"U+00C3">>>>, <<"U+00E4", <<"U+00C4">>>>,
      <<"U+00E5", <<"U+00C5">>>>, <<"U+00E6", <<"U+00C6">>>>,
      <<"U+00E7", <<"U+00C7">>>>, <<"U+00E8", <<"U+00C8">>>>,
      <<"U+00E9", <<"U+00C9">>>>, <<"U+00EA", <<"U+00CA">>>>,
      <<"U+00EB", <<"U+00CB">>>>, <<"U+00EC", <<"U+00CC">>>>,
      <<"U+00ED", <<"U+00CD">>>>, <<"U+00EE", <<"U+00CE">>>>,
      <<"U+00EF", <<"U+00CF">>>>, <<"U+00F0", <<"U+00D0">>>>,
      <<"U+00F1", <<"U+00D1">>>>, <<"U+00F2", <<"U+00D2">>>>,
      <<"U+00F3", <<"U+00D3">>>>, <<"U+00F4", <<"U+00D4">>>>,
      <<"U+00F5", <<"U+00D5">>>>, <<"U+00F6", <<"U+00D6">>>>,
      <<"U+00F8", <<"U+00D8">>>>, <<"U+00F9", <<"U+00D9">>>>,
      <<"U+00FA", <<"U+00DA">>>>, <<"U+00FB", <<"U+00DB">>>>,
      <<"U+00FC", <<"U+00DC">>>>, <<"U+00FD", <<"U+00DD">>>>,
      <<"U+00FE", <<"U+00DE">>>>, <<"U+00FF", <<"U+0178">>>>,
      <<"U+0101", <<"U+0100">>>>, <<"U+0103", <<"U+0102">>>>,
      <<"U+0105", <<"U+0104">>>>, <<"U+0107", <<"U+0106">>>>,
      <<"U+0109", <<"U+0108">>>>, <<"U+010B", <<"U+010A">>>>,
      <<"U+010D", <<"U+010C">>>>, <<"U+010F", <<"U+010E">>>>,
      <<"U+0111", <<"U+0110">>>>, <<"U+0113", <<"U+0112">>>>,
      <<"U+0115", <<"U+0114">>>>, <<"U+0117", <<"U+0116">>>>,
      <<"U+0119", <<"U+0118">>>>, <<"U+011B", <<"U+011A">>>>,
      <<"U+011D", <<"U+011C">>>>, <<"U+011F", <<"U+011E">>>>,
      <<"U+0121", <<"U+0120">>>>, <<"U+0123", <<"U+0122">>>>,
      <<"U+0125", <<"U+0124">>>>, <<"U+0127", <<"U+0126">>>>,
      <<"U+0129", <<"U+0128">>>>, <<"U+012B", <<"U+012A">>>>,
      <<"U+012D", <<"U+012C">>>>, <<"U+012F", <<"U+012E">>>>,
      <<"U+0131", <<"I">>>>, <<"U+0133", <<"U+0132">>>>,
      <<"U+0135", <<"U+0134">>>>, <<"U+0137", <<"U+0136">>>>,
      <<"U+013A", <<"U+0139">>>>, <<"U+013C", <<"U+013B">>>>,
      <<"U+013E", <<"U+013D">>>>, <<"U+0140", <<"U+013F">>>>,
      <<"U+0142", <<"U+0141">>>>, <<"U+0144", <<"U+0143">>>>,
      <<"U+0146", <<"U+0145">>>>, <<"U+0148", <<"U+0147">>>>,
      <<"U+0149", <<"U+02BC", "N">>>>, <<"U+014B", <<"U+014A">>>>,
      <<"U+014D", <<"U+014C">>>>, <<"U+014F", <<"U+014E">>>>,
      <<"U+0151", <<"U+0150">>>>, <<"U+0153", <<"U+0152">>>>,
      <<"U+0155", <<"U+0154">>>>, <<"U+0157", <<"U+0156">>>>,
      <<"U+0159", <<"U+0158">>>>, <<"U+015B", <<"U+015A">>>>,
      <<"U+015D", <<"U+015C">>>>, <<"U+015F", <<"U+015E">>>>,
      <<"U+0161", <<"U+0160">>>>, <<"U+0163", <<"U+0162">>>>,
      <<"U+0165", <<"U+0164">>>>, <<"U+0167", <<"U+0166">>>>,
      <<"U+0169", <<"U+0168">>>>, <<"U+016B", <<"U+016A">>>>,
      <<"U+016D", <<"U+016C">>>>, <<"U+016F", <<"U+016E">>>>,
      <<"U+0171", <<"U+0170">>>>, <<"U+0173", <<"U+0172">>>>,
      <<"U+0175", <<"U+0174">>>>, <<"U+0177", <<"U+0176">>>>,
      <<"U+017A", <<"U+0179">>>>, <<"U+017C", <<"U+017B">>>>,
      <<"U+017E", <<"U+017D">>>>, <<"U+017F", <<"S">>>>,
      <<"U+0180", <<"U+0243">>>>, <<"U+0183", <<"U+0182">>>>,
      <<"U+0185", <<"U+0184">>>>, <<"U+0188", <<"U+0187">>>>,
      <<"U+018C", <<"U+018B">>>>, <<"U+0192", <<"U+0191">>>>,
      <<"U+0195", <<"U+01F6">>>>, <<"U+0199", <<"U+0198">>>>,
      <<"U+019A", <<"U+023D">>>>, <<"U+019E", <<"U+0220">>>>,
      <<"U+01A1", <<"U+01A0">>>>, <<"U+01A3", <<"U+01A2">>>>,
      <<"U+01A5", <<"U+01A4">>>>, <<"U+01A8", <<"U+01A7">>>>,
      <<"U+01AD", <<"U+01AC">>>>, <<"U+01B0", <<"U+01AF">>>>,
      <<"U+01B4", <<"U+01B3">>>>, <<"U+01B6", <<"U+01B5">>>>,
      <<"U+01B9", <<"U+01B8">>>>, <<"U+01BD", <<"U+01BC">>>>,
      <<"U+01BF", <<"U+01F7">>>>, <<"U+01C5", <<"U+01C4">>>>,
      <<"U+01C6", <<"U+01C4">>>>, <<"U+01C8", <<"U+01C7">>>>,
      <<"U+01C9", <<"U+01C7">>>>, <<"U+01CB", <<"U+01CA">>>>,
      <<"U+01CC", <<"U+01CA">>>>, <<"U+01CE", <<"U+01CD">>>>,
      <<"U+01D0", <<"U+01CF">>>>, <<"U+01D2", <<"U+01D1">>>>,
      <<"U+01D4", <<"U+01D3">>>>, <<"U+01D6", <<"U+01D5">>>>,
      <<"U+01D8", <<"U+01D7">>>>, <<"U+01DA", <<"U+01D9">>>>,
      <<"U+01DC", <<"U+01DB">>>>, <<"U+01DD", <<"U+018E">>>>,
      <<"U+01DF", <<"U+01DE">>>>, <<"U+01E1", <<"U+01E0">>>>,
      <<"U+01E3", <<"U+01E2">>>>, <<"U+01E5", <<"U+01E4">>>>,
      <<"U+01E7", <<"U+01E6">>>>, <<"U+01E9", <<"U+01E8">>>>,
      <<"U+01EB", <<"U+01EA">>>>, <<"U+01ED", <<"U+01EC">>>>,
      <<"U+01EF", <<"U+01EE">>>>, <<"U+01F0", <<"J", "U+030C">>>>,
      <<"U+01F2", <<"U+01F1">>>>, <<"U+01F3", <<"U+01F1">>>>,
      <<"U+01F5", <<"U+01F4">>>>, <<"U+01F9", <<"U+01F8">>>>,
      <<"U+01FB", <<"U+01FA">>>>, <<"U+01FD", <<"U+01FC">>>>,
      <<"U+01FF", <<"U+01FE">>>>, <<"U+0201", <<"U+0200">>>>,
      <<"U+0203", <<"U+0202">>>>, <<"U+0205", <<"U+0204">>>>,
      <<"U+0207", <<"U+0206">>>>, <<"U+0209", <<"U+0208">>>>,
      <<"U+020B", <<"U+020A">>>>, <<"U+020D", <<"U+020C">>>>,
      <<"U+020F", <<"U+020E">>>>, <<"U+0211", <<"U+0210">>>>,
      <<"U+0213", <<"U+0212">>>>, <<"U+0215", <<"U+0214">>>>,
      <<"U+0217", <<"U+0216">>>>, <<"U+0219", <<"U+0218">>>>,
      <<"U+021B", <<"U+021A">>>>, <<"U+021D", <<"U+021C">>>>,
      <<"U+021F", <<"U+021E">>>>, <<"U+0223", <<"U+0222">>>>,
      <<"U+0225", <<"U+0224">>>>, <<"U+0227", <<"U+0226">>>>,
      <<"U+0229", <<"U+0228">>>>, <<"U+022B", <<"U+022A">>>>,
      <<"U+022D", <<"U+022C">>>>, <<"U+022F", <<"U+022E">>>>,
      <<"U+0231", <<"U+0230">>>>, <<"U+0233", <<"U+0232">>>>,
      <<"U+023C", <<"U+023B">>>>, <<"U+023F", <<"U+2C7E">>>>,
      <<"U+0240", <<"U+2C7F">>>>, <<"U+0242", <<"U+0241">>>>,
      <<"U+0247", <<"U+0246">>>>, <<"U+0249", <<"U+0248">>>>,
      <<"U+024B", <<"U+024A">>>>, <<"U+024D", <<"U+024C">>>>,
      <<"U+024F", <<"U+024E">>>>, <<"U+0250", <<"U+2C6F">>>>,
      <<"U+0251", <<"U+2C6D">>>>, <<"U+0252", <<"U+2C70">>>>,
      <<"U+0253", <<"U+0181">>>>, <<"U+0254", <<"U+0186">>>>,
      <<"U+0256", <<"U+0189">>>>, <<"U+0257", <<"U+018A">>>>,
      <<"U+0259", <<"U+018F">>>>, <<"U+025B", <<"U+0190">>>>,
      <<"U+025C", <<"U+A7AB">>>>, <<"U+0260", <<"U+0193">>>>,
      <<"U+0261", <<"U+A7AC">>>>, <<"U+0263", <<"U+0194">>>>,
      <<"U+0265", <<"U+A78D">>>>, <<"U+0266", <<"U+A7AA">>>>,
      <<"U+0268", <<"U+0197">>>>, <<"U+0269", <<"U+0196">>>>,
      <<"U+026A", <<"U+A7AE">>>>, <<"U+026B", <<"U+2C62">>>>,
      <<"U+026C", <<"U+A7AD">>>>, <<"U+026F", <<"U+019C">>>>,
      <<"U+0271", <<"U+2C6E">>>>, <<"U+0272", <<"U+019D">>>>,
      <<"U+0275", <<"U+019F">>>>, <<"U+027D", <<"U+2C64">>>>,
      <<"U+0280", <<"U+01A6">>>>, <<"U+0282", <<"U+A7C5">>>>,
      <<"U+0283", <<"U+01A9">>>>, <<"U+0287", <<"U+A7B1">>>>,
      <<"U+0288", <<"U+01AE">>>>, <<"U+0289", <<"U+0244">>>>,
      <<"U+028A", <<"U+01B1">>>>, <<"U+028B", <<"U+01B2">>>>,
      <<"U+028C", <<"U+0245">>>>, <<"U+0292", <<"U+01B7">>>>,
      <<"U+029D", <<"U+A7B2">>>>, <<"U+029E", <<"U+A7B0">>>>,
      <<"U+0345", <<"U+0399">>>>, <<"U+0371", <<"U+0370">>>>,
      <<"U+0373", <<"U+0372">>>>, <<"U+0377", <<"U+0376">>>>,
      <<"U+037B", <<"U+03FD">>>>, <<"U+037C", <<"U+03FE">>>>,
      <<"U+037D", <<"U+03FF">>>>,
      <<"U+0390", <<"U+0399", "U+0308", "U+0301">>>>,
      <<"U+03AC", <<"U+0386">>>>, <<"U+03AD", <<"U+0388">>>>,
      <<"U+03AE", <<"U+0389">>>>, <<"U+03AF", <<"U+038A">>>>,
      <<"U+03B0", <<"U+03A5", "U+0308", "U+0301">>>>,
      <<"U+03B1", <<"U+0391">>>>, <<"U+03B2", <<"U+0392">>>>,
      <<"U+03B3", <<"U+0393">>>>, <<"U+03B4", <<"U+0394">>>>,
      <<"U+03B5", <<"U+0395">>>>, <<"U+03B6", <<"U+0396">>>>,
      <<"U+03B7", <<"U+0397">>>>, <<"U+03B8", <<"U+0398">>>>,
      <<"U+03B9", <<"U+0399">>>>, <<"U+03BA", <<"U+039A">>>>,
      <<"U+03BB", <<"U+039B">>>>, <<"U+03BC", <<"U+039C">>>>,
      <<"U+03BD", <<"U+039D">>>>, <<"U+03BE", <<"U+039E">>>>,
      <<"U+03BF", <<"U+039F">>>>, <<"U+03C0", <<"U+03A0">>>>,
      <<"U+03C1", <<"U+03A1">>>>, <<"U+03C2", <<"U+03A3">>>>,
      <<"U+03C3", <<"U+03A3">>>>, <<"U+03C4", <<"U+03A4">>>>,
      <<"U+03C5", <<"U+03A5">>>>, <<"U+03C6", <<"U+03A6">>>>,
      <<"U+03C7", <<"U+03A7">>>>, <<"U+03C8", <<"U+03A8">>>>,
      <<"U+03C9", <<"U+03A9">>>>, <<"U+03CA", <<"U+03AA">>>>,
      <<"U+03CB", <<"U+03AB">>>>, <<"U+03CC", <<"U+038C">>>>,
      <<"U+03CD", <<"U+038E">>>>, <<"U+03CE", <<"U+038F">>>>,
      <<"U+03D0", <<"U+0392">>>>, <<"U+03D1", <<"U+0398">>>>,
      <<"U+03D5", <<"U+03A6">>>>, <<"U+03D6", <<"U+03A0">>>>,
      <<"U+03D7", <<"U+03CF">>>>, <<"U+03D9", <<"U+03D8">>>>,
      <<"U+03DB", <<"U+03DA">>>>, <<"U+03DD", <<"U+03DC">>>>,
      <<"U+03DF", <<"U+03DE">>>>, <<"U+03E1", <<"U+03E0">>>>,
      <<"U+03E3", <<"U+03E2">>>>, <<"U+03E5", <<"U+03E4">>>>,
      <<"U+03E7", <<"U+03E6">>>>, <<"U+03E9", <<"U+03E8">>>>,
      <<"U+03EB", <<"U+03EA">>>>, <<"U+03ED", <<"U+03EC">>>>,
      <<"U+03EF", <<"U+03EE">>>>, <<"U+03F0", <<"U+039A">>>>,
      <<"U+03F1", <<"U+03A1">>>>, <<"U+03F2", <<"U+03F9">>>>,
      <<"U+03F3", <<"U+037F">>>>, <<"U+03F5", <<"U+0395">>>>,
      <<"U+03F8", <<"U+03F7">>>>, <<"U+03FB", <<"U+03FA">>>>,
      <<"U+0430", <<"U+0410">>>>, <<"U+0431", <<"U+0411">>>>,
      <<"U+0432", <<"U+0412">>>>, <<"U+0433", <<"U+0413">>>>,
      <<"U+0434", <<"U+0414">>>>, <<"U+0435", <<"U+0415">>>>,
      <<"U+0436", <<"U+0416">>>>, <<"U+0437", <<"U+0417">>>>,
      <<"U+0438", <<"U+0418">>>>, <<"U+0439", <<"U+0419">>>>,
      <<"U+043A", <<"U+041A">>>>, <<"U+043B", <<"U+041B">>>>,
      <<"U+043C", <<"U+041C">>>>, <<"U+043D", <<"U+041D">>>>,
      <<"U+043E", <<"U+041E">>>>, <<"U+043F", <<"U+041F">>>>,
      <<"U+0440", <<"U+0420">>>>, <<"U+0441", <<"U+0421">>>>,
      <<"U+0442", <<"U+0422">>>>, <<"U+0443", <<"U+0423">>>>,
      <<"U+0444", <<"U+0424">>>>, <<"U+0445", <<"U+0425">>>>,
      <<"U+0446", <<"U+0426">>>>, <<"U+0447", <<"U+0427">>>>,
      <<"U+0448", <<"U+0428">>>>, <<"U+0449", <<"U+0429">>>>,
      <<"U+044A", <<"U+042A">>>>, <<"U+044B", <<"U+042B">>>>,
      <<"U+044C", <<"U+042C">>>>, <<"U+044D", <<"U+042D">>>>,
      <<"U+044E", <<"U+042E">>>>, <<"U+044F", <<"U+042F">>>>,
      <<"U+0450", <<"U+0400">>>>, <<"U+0451", <<"U+0401">>>>,
      <<"U+0452", <<"U+0402">>>>, <<"U+0453", <<"U+0403">>>>,
      <<"U+0454", <<"U+0404">>>>, <<"U+0455", <<"U+0405">>>>,
      <<"U+0456", <<"U+0406">>>>, <<"U+0457", <<"U+0407">>>>,
      <<"U+0458", <<"U+0408">>>>, <<"U+0459", <<"U+0409">>>>,
      <<"U+045A", <<"U+040A">>>>, <<"U+045B", <<"U+040B">>>>,
      <<"U+045C", <<"U+040C">>>>, <<"U+045D", <<"U+040D">>>>,
      <<"U+045E", <<"U+040E">>>>, <<"U+045F", <<"U+040F">>>>,
      <<"U+0461", <<"U+0460">>>>, <<"U+0463", <<"U+0462">>>>,
      <<"U+0465", <<"U+0464">>>>, <<"U+0467", <<"U+0466">>>>,
      <<"U+0469", <<"U+0468">>>>, <<"U+046B", <<"U+046A">>>>,
      <<"U+046D", <<"U+046C">>>>, <<"U+046F", <<"U+046E">>>>,
      <<"U+0471", <<"U+0470">>>>, <<"U+0473", <<"U+0472">>>>,
      <<"U+0475", <<"U+0474">>>>, <<"U+0477", <<"U+0476">>>>,
      <<"U+0479", <<"U+0478">>>>, <<"U+047B", <<"U+047A">>>>,
      <<"U+047D", <<"U+047C">>>>, <<"U+047F", <<"U+047E">>>>,
      <<"U+0481", <<"U+0480">>>>, <<"U+048B", <<"U+048A">>>>,
      <<"U+048D", <<"U+048C">>>>, <<"U+048F", <<"U+048E">>>>,
      <<"U+0491", <<"U+0490">>>>, <<"U+0493", <<"U+0492">>>>,
      <<"U+0495", <<"U+0494">>>>, <<"U+0497", <<"U+0496">>>>,
      <<"U+0499", <<"U+0498">>>>, <<"U+049B", <<"U+049A">>>>,
      <<"U+049D", <<"U+049C">>>>, <<"U+049F", <<"U+049E">>>>,
      <<"U+04A1", <<"U+04A0">>>>, <<"U+04A3", <<"U+04A2">>>>,
      <<"U+04A5", <<"U+04A4">>>>, <<"U+04A7", <<"U+04A6">>>>,
      <<"U+04A9", <<"U+04A8">>>>, <<"U+04AB", <<"U+04AA">>>>,
      <<"U+04AD", <<"U+04AC">>>>, <<"U+04AF", <<"U+04AE">>>>,
      <<"U+04B1", <<"U+04B0">>>>, <<"U+04B3", <<"U+04B2">>>>,
      <<"U+04B5", <<"U+04B4">>>>, <<"U+04B7", <<"U+04B6">>>>,
      <<"U+04B9", <<"U+04B8">>>>, <<"U+04BB", <<"U+04BA">>>>,
      <<"U+04BD", <<"U+04BC">>>>, <<"U+04BF", <<"U+04BE">>>>,
      <<"U+04C2", <<"U+04C1">>>>, <<"U+04C4", <<"U+04C3">>>>,
      <<"U+04C6", <<"U+04C5">>>>, <<"U+04C8", <<"U+04C7">>>>,
      <<"U+04CA", <<"U+04C9">>>>, <<"U+04CC", <<"U+04CB">>>>,
      <<"U+04CE", <<"U+04CD">>>>, <<"U+04CF", <<"U+04C0">>>>,
      <<"U+04D1", <<"U+04D0">>>>, <<"U+04D3", <<"U+04D2">>>>,
      <<"U+04D5", <<"U+04D4">>>>, <<"U+04D7", <<"U+04D6">>>>,
      <<"U+04D9", <<"U+04D8">>>>, <<"U+04DB", <<"U+04DA">>>>,
      <<"U+04DD", <<"U+04DC">>>>, <<"U+04DF", <<"U+04DE">>>>,
      <<"U+04E1", <<"U+04E0">>>>, <<"U+04E3", <<"U+04E2">>>>,
      <<"U+04E5", <<"U+04E4">>>>, <<"U+04E7", <<"U+04E6">>>>,
      <<"U+04E9", <<"U+04E8">>>>, <<"U+04EB", <<"U+04EA">>>>,
      <<"U+04ED", <<"U+04EC">>>>, <<"U+04EF", <<"U+04EE">>>>,
      <<"U+04F1", <<"U+04F0">>>>, <<"U+04F3", <<"U+04F2">>>>,
      <<"U+04F5", <<"U+04F4">>>>, <<"U+04F7", <<"U+04F6">>>>,
      <<"U+04F9", <<"U+04F8">>>>, <<"U+04FB", <<"U+04FA">>>>,
      <<"U+04FD", <<"U+04FC">>>>, <<"U+04FF", <<"U+04FE">>>>,
      <<"U+0501", <<"U+0500">>>>, <<"U+0503", <<"U+0502">>>>,
      <<"U+0505", <<"U+0504">>>>, <<"U+0507", <<"U+0506">>>>,
      <<"U+0509", <<"U+0508">>>>, <<"U+050B", <<"U+050A">>>>,
      <<"U+050D", <<"U+050C">>>>, <<"U+050F", <<"U+050E">>>>,
      <<"U+0511", <<"U+0510">>>>, <<"U+0513", <<"U+0512">>>>,
      <<"U+0515", <<"U+0514">>>>, <<"U+0517", <<"U+0516">>>>,
      <<"U+0519", <<"U+0518">>>>, <<"U+051B", <<"U+051A">>>>,
      <<"U+051D", <<"U+051C">>>>, <<"U+051F", <<"U+051E">>>>,
      <<"U+0521", <<"U+0520">>>>, <<"U+0523", <<"U+0522">>>>,
      <<"U+0525", <<"U+0524">>>>, <<"U+0527", <<"U+0526">>>>,
      <<"U+0529", <<"U+0528">>>>, <<"U+052B", <<"U+052A">>>>,
      <<"U+052D", <<"U+052C">>>>, <<"U+052F", <<"U+052E">>>>,
      <<"U+0561", <<"U+0531">>>>, <<"U+0562", <<"U+0532">>>>,
      <<"U+0563", <<"U+0533">>>>, <<"U+0564", <<"U+0534">>>>,
      <<"U+0565", <<"U+0535">>>>, <<"U+0566", <<"U+0536">>>>,
      <<"U+0567", <<"U+0537">>>>, <<"U+0568", <<"U+0538">>>>,
      <<"U+0569", <<"U+0539">>>>, <<"U+056A", <<"U+053A">>>>,
      <<"U+056B", <<"U+053B">>>>, <<"U+056C", <<"U+053C">>>>,
      <<"U+056D", <<"U+053D">>>>, <<"U+056E", <<"U+053E">>>>,
      <<"U+056F", <<"U+053F">>>>, <<"U+0570", <<"U+0540">>>>,
      <<"U+0571", <<"U+0541">>>>, <<"U+0572", <<"U+0542">>>>,
      <<"U+0573", <<"U+0543">>>>, <<"U+0574", <<"U+0544">>>>,
      <<"U+0575", <<"U+0545">>>>, <<"U+0576", <<"U+0546">>>>,
      <<"U+0577", <<"U+0547">>>>, <<"U+0578", <<"U+0548">>>>,
      <<"U+0579", <<"U+0549">>>>, <<"U+057A", <<"U+054A">>>>,
      <<"U+057B", <<"U+054B">>>>, <<"U+057C", <<"U+054C">>>>,
      <<"U+057D", <<"U+054D">>>>, <<"U+057E", <<"U+054E">>>>,
      <<"U+057F", <<"U+054F">>>>, <<"U+0580", <<"U+0550">>>>,
      <<"U+0581", <<"U+0551">>>>, <<"U+0582", <<"U+0552">>>>,
      <<"U+0583", <<"U+0553">>>>, <<"U+0584", <<"U+0554">>>>,
      <<"U+0585", <<"U+0555">>>>, <<"U+0586", <<"U+0556">>>>,
      <<"U+0587", <<"U+0535", "U+0552">>>>, <<"U+10D0", <<"U+1C90">>>>,
      <<"U+10D1", <<"U+1C91">>>>, <<"U+10D2", <<"U+1C92">>>>,
      <<"U+10D3", <<"U+1C93">>>>, <<"U+10D4", <<"U+1C94">>>>,
      <<"U+10D5", <<"U+1C95">>>>, <<"U+10D6", <<"U+1C96">>>>,
      <<"U+10D7", <<"U+1C97">>>>, <<"U+10D8", <<"U+1C98">>>>,
      <<"U+10D9", <<"U+1C99">>>>, <<"U+10DA", <<"U+1C9A">>>>,
      <<"U+10DB", <<"U+1C9B">>>>, <<"U+10DC", <<"U+1C9C">>>>,
      <<"U+10DD", <<"U+1C9D">>>>, <<"U+10DE", <<"U+1C9E">>>>,
      <<"U+10DF", <<"U+1C9F">>>>, <<"U+10E0", <<"U+1CA0">>>>,
      <<"U+10E1", <<"U+1CA1">>>>, <<"U+10E2", <<"U+1CA2">>>>,
      <<"U+10E3", <<"U+1CA3">>>>, <<"U+10E4", <<"U+1CA4">>>>,
      <<"U+10E5", <<"U+1CA5">>>>, <<"U+10E6", <<"U+1CA6">>>>,
      <<"U+10E7", <<"U+1CA7">>>>, <<"U+10E8", <<"U+1CA8">>>>,
      <<"U+10E9", <<"U+1CA9">>>>, <<"U+10EA", <<"U+1CAA">>>>,
      <<"U+10EB", <<"U+1CAB">>>>, <<"U+10EC", <<"U+1CAC">>>>,
      <<"U+10ED", <<"U+1CAD">>>>, <<"U+10EE", <<"U+1CAE">>>>,
      <<"U+10EF", <<"U+1CAF">>>>, <<"U+10F0", <<"U+1CB0">>>>,
      <<"U+10F1", <<"U+1CB1">>>>, <<"U+10F2", <<"U+1CB2">>>>,
      <<"U+10F3", <<"U+1CB3">>>>, <<"U+10F4", <<"U+1CB4">>>>,
      <<"U+10F5", <<"U+1CB5">>>>, <<"U+10F6", <<"U+1CB6">>>>,
      <<"U+10F7", <<"U+1CB7">>>>, <<"U+10F8", <<"U+1CB8">>>>,
      <<"U+10F9", <<"U+1CB9">>>>, <<"U+10FA", <<"U+1CBA">>>>,
      <<"U+10FD", <<"U+1CBD">>>>, <<"U+10FE", <<"U+1CBE">>>>,
      <<"U+10FF", <<"U+1CBF">>>>, <<"U+13F8", <<"U+13F0">>>>,
      <<"U+13F9", <<"U+13F1">>>>, <<"U+13FA", <<"U+13F2">>>>,
      <<"U+13FB", <<"U+13F3">>>>, <<"U+13FC", <<"U+13F4">>>>,
      <<"U+13FD", <<"U+13F5">>>>, <<"U+1C80", <<"U+0412">>>>,
      <<"U+1C81", <<"U+0414">>>>, <<"U+1C82", <<"U+041E">>>>,
      <<"U+1C83", <<"U+0421">>>>, <<"U+1C84", <<"U+0422">>>>,
      <<"U+1C85", <<"U+0422">>>>, <<"U+1C86", <<"U+042A">>>>,
      <<"U+1C87", <<"U+0462">>>>, <<"U+1C88", <<"U+A64A">>>>,
      <<"U+1D79", <<"U+A77D">>>>, <<"U+1D7D", <<"U+2C63">>>>,
      <<"U+1D8E", <<"U+A7C6">>>>, <<"U+1E01", <<"U+1E00">>>>,
      <<"U+1E03", <<"U+1E02">>>>, <<"U+1E05", <<"U+1E04">>>>,
      <<"U+1E07", <<"U+1E06">>>>, <<"U+1E09", <<"U+1E08">>>>,
      <<"U+1E0B", <<"U+1E0A">>>>, <<"U+1E0D", <<"U+1E0C">>>>,
      <<"U+1E0F", <<"U+1E0E">>>>, <<"U+1E11", <<"U+1E10">>>>,
      <<"U+1E13", <<"U+1E12">>>>, <<"U+1E15", <<"U+1E14">>>>,
      <<"U+1E17", <<"U+1E16">>>>, <<"U+1E19", <<"U+1E18">>>>,
      <<"U+1E1B", <<"U+1E1A">>>>, <<"U+1E1D", <<"U+1E1C">>>>,
      <<"U+1E1F", <<"U+1E1E">>>>, <<"U+1E21", <<"U+1E20">>>>,
      <<"U+1E23", <<"U+1E22">>>>, <<"U+1E25", <<"U+1E24">>>>,
      <<"U+1E27", <<"U+1E26">>>>, <<"U+1E29", <<"U+1E28">>>>,
      <<"U+1E2B", <<"U+1E2A">>>>, <<"U+1E2D", <<"U+1E2C">>>>,
      <<"U+1E2F", <<"U+1E2E">>>>, <<"U+1E31", <<"U+1E30">>>>,
      <<"U+1E33", <<"U+1E32">>>>, <<"U+1E35", <<"U+1E34">>>>,
      <<"U+1E37", <<"U+1E36">>>>, <<"U+1E39", <<"U+1E38">>>>,
      <<"U+1E3B", <<"U+1E3A">>>>, <<"U+1E3D", <<"U+1E3C">>>>,
      <<"U+1E3F", <<"U+1E3E">>>>, <<"U+1E41", <<"U+1E40">>>>,
      <<"U+1E43", <<"U+1E42">>>>, <<"U+1E45", <<"U+1E44">>>>,
      <<"U+1E47", <<"U+1E46">>>>, <<"U+1E49", <<"U+1E48">>>>,
      <<"U+1E4B", <<"U+1E4A">>>>, <<"U+1E4D", <<"U+1E4C">>>>,
      <<"U+1E4F", <<"U+1E4E">>>>, <<"U+1E51", <<"U+1E50">>>>,
      <<"U+1E53", <<"U+1E52">>>>, <<"U+1E55", <<"U+1E54">>>>,
      <<"U+1E57", <<"U+1E56">>>>, <<"U+1E59", <<"U+1E58">>>>,
      <<"U+1E5B", <<"U+1E5A">>>>, <<"U+1E5D", <<"U+1E5C">>>>,
      <<"U+1E5F", <<"U+1E5E">>>>, <<"U+1E61", <<"U+1E60">>>>,
      <<"U+1E63", <<"U+1E62">>>>, <<"U+1E65", <<"U+1E64">>>>,
      <<"U+1E67", <<"U+1E66">>>>, <<"U+1E69", <<"U+1E68">>>>,
      <<"U+1E6B", <<"U+1E6A">>>>, <<"U+1E6D", <<"U+1E6C">>>>,
      <<"U+1E6F", <<"U+1E6E">>>>, <<"U+1E71", <<"U+1E70">>>>,
      <<"U+1E73", <<"U+1E72">>>>, <<"U+1E75", <<"U+1E74">>>>,
      <<"U+1E77", <<"U+1E76">>>>, <<"U+1E79", <<"U+1E78">>>>,
      <<"U+1E7B", <<"U+1E7A">>>>, <<"U+1E7D", <<"U+1E7C">>>>,
      <<"U+1E7F", <<"U+1E7E">>>>, <<"U+1E81", <<"U+1E80">>>>,
      <<"U+1E83", <<"U+1E82">>>>, <<"U+1E85", <<"U+1E84">>>>,
      <<"U+1E87", <<"U+1E86">>>>, <<"U+1E89", <<"U+1E88">>>>,
      <<"U+1E8B", <<"U+1E8A">>>>, <<"U+1E8D", <<"U+1E8C">>>>,
      <<"U+1E8F", <<"U+1E8E">>>>, <<"U+1E91", <<"U+1E90">>>>,
      <<"U+1E93", <<"U+1E92">>>>, <<"U+1E95", <<"U+1E94">>>>,
      <<"U+1E96", <<"H", "U+0331">>>>, <<"U+1E97", <<"T", "U+0308">>>>,
      <<"U+1E98", <<"W", "U+030A">>>>, <<"U+1E99", <<"Y", "U+030A">>>>,
      <<"U+1E9A", <<"A", "U+02BE">>>>, <<"U+1E9B", <<"U+1E60">>>>,
      <<"U+1EA1", <<"U+1EA0">>>>, <<"U+1EA3", <<"U+1EA2">>>>,
      <<"U+1EA5", <<"U+1EA4">>>>, <<"U+1EA7", <<"U+1EA6">>>>,
      <<"U+1EA9", <<"U+1EA8">>>>, <<"U+1EAB", <<"U+1EAA">>>>,
      <<"U+1EAD", <<"U+1EAC">>>>, <<"U+1EAF", <<"U+1EAE">>>>,
      <<"U+1EB1", <<"U+1EB0">>>>, <<"U+1EB3", <<"U+1EB2">>>>,
      <<"U+1EB5", <<"U+1EB4">>>>, <<"U+1EB7", <<"U+1EB6">>>>,
      <<"U+1EB9", <<"U+1EB8">>>>, <<"U+1EBB", <<"U+1EBA">>>>,
      <<"U+1EBD", <<"U+1EBC">>>>, <<"U+1EBF", <<"U+1EBE">>>>,
      <<"U+1EC1", <<"U+1EC0">>>>, <<"U+1EC3", <<"U+1EC2">>>>,
      <<"U+1EC5", <<"U+1EC4">>>>, <<"U+1EC7", <<"U+1EC6">>>>,
      <<"U+1EC9", <<"U+1EC8">>>>, <<"U+1ECB", <<"U+1ECA">>>>,
      <<"U+1ECD", <<"U+1ECC">>>>, <<"U+1ECF", <<"U+1ECE">>>>,
      <<"U+1ED1", <<"U+1ED0">>>>, <<"U+1ED3", <<"U+1ED2">>>>,
      <<"U+1ED5", <<"U+1ED4">>>>, <<"U+1ED7", <<"U+1ED6">>>>,
      <<"U+1ED9", <<"U+1ED8">>>>, <<"U+1EDB", <<"U+1EDA">>>>,
      <<"U+1EDD", <<"U+1EDC">>>>, <<"U+1EDF", <<"U+1EDE">>>>,
      <<"U+1EE1", <<"U+1EE0">>>>, <<"U+1EE3", <<"U+1EE2">>>>,
      <<"U+1EE5", <<"U+1EE4">>>>, <<"U+1EE7", <<"U+1EE6">>>>,
      <<"U+1EE9", <<"U+1EE8">>>>, <<"U+1EEB", <<"U+1EEA">>>>,
      <<"U+1EED", <<"U+1EEC">>>>, <<"U+1EEF", <<"U+1EEE">>>>,
      <<"U+1EF1", <<"U+1EF0">>>>, <<"U+1EF3", <<"U+1EF2">>>>,
      <<"U+1EF5", <<"U+1EF4">>>>, <<"U+1EF7", <<"U+1EF6">>>>,
      <<"U+1EF9", <<"U+1EF8">>>>, <<"U+1EFB", <<"U+1EFA">>>>,
      <<"U+1EFD", <<"U+1EFC">>>>, <<"U+1EFF", <<"U+1EFE">>>>,
      <<"U+1F00", <<"U+1F08">>>>, <<"U+1F01", <<"U+1F09">>>>,
      <<"U+1F02", <<"U+1F0A">>>>, <<"U+1F03", <<"U+1F0B">>>>,
      <<"U+1F04", <<"U+1F0C">>>>, <<"U+1F05", <<"U+1F0D">>>>,
      <<"U+1F06", <<"U+1F0E">>>>, <<"U+1F07", <<"U+1F0F">>>>,
      <<"U+1F10", <<"U+1F18">>>>, <<"U+1F11", <<"U+1F19">>>>,
      <<"U+1F12", <<"U+1F1A">>>>, <<"U+1F13", <<"U+1F1B">>>>,
      <<"U+1F14", <<"U+1F1C">>>>, <<"U+1F15", <<"U+1F1D">>>>,
      <<"U+1F20", <<"U+1F28">>>>, <<"U+1F21", <<"U+1F29">>>>,
      <<"U+1F22", <<"U+1F2A">>>>, <<"U+1F23", <<"U+1F2B">>>>,
      <<"U+1F24", <<"U+1F2C">>>>, <<"U+1F25", <<"U+1F2D">>>>,
      <<"U+1F26", <<"U+1F2E">>>>, <<"U+1F27", <<"U+1F2F">>>>,
      <<"U+1F30", <<"U+1F38">>>>, <<"U+1F31", <<"U+1F39">>>>,
      <<"U+1F32", <<"U+1F3A">>>>, <<"U+1F33", <<"U+1F3B">>>>,
      <<"U+1F34", <<"U+1F3C">>>>, <<"U+1F35", <<"U+1F3D">>>>,
      <<"U+1F36", <<"U+1F3E">>>>, <<"U+1F37", <<"U+1F3F">>>>,
      <<"U+1F40", <<"U+1F48">>>>, <<"U+1F41", <<"U+1F49">>>>,
      <<"U+1F42", <<"U+1F4A">>>>, <<"U+1F43", <<"U+1F4B">>>>,
      <<"U+1F44", <<"U+1F4C">>>>, <<"U+1F45", <<"U+1F4D">>>>,
      <<"U+1F50", <<"U+03A5", "U+0313">>>>, <<"U+1F51", <<"U+1F59">>>>,
      <<"U+1F52", <<"U+03A5", "U+0313", "U+0300">>>>,
      <<"U+1F53", <<"U+1F5B">>>>,
      <<"U+1F54", <<"U+03A5", "U+0313", "U+0301">>>>,
      <<"U+1F55", <<"U+1F5D">>>>,
      <<"U+1F56", <<"U+03A5", "U+0313", "U+0342">>>>,
      <<"U+1F57", <<"U+1F5F">>>>, <<"U+1F60", <<"U+1F68">>>>,
      <<"U+1F61", <<"U+1F69">>>>, <<"U+1F62", <<"U+1F6A">>>>,
      <<"U+1F63", <<"U+1F6B">>>>, <<"U+1F64", <<"U+1F6C">>>>,
      <<"U+1F65", <<"U+1F6D">>>>, <<"U+1F66", <<"U+1F6E">>>>,
      <<"U+1F67", <<"U+1F6F">>>>, <<"U+1F70", <<"U+1FBA">>>>,
      <<"U+1F71", <<"U+1FBB">>>>, <<"U+1F72", <<"U+1FC8">>>>,
      <<"U+1F73", <<"U+1FC9">>>>, <<"U+1F74", <<"U+1FCA">>>>,
      <<"U+1F75", <<"U+1FCB">>>>, <<"U+1F76", <<"U+1FDA">>>>,
      <<"U+1F77", <<"U+1FDB">>>>, <<"U+1F78", <<"U+1FF8">>>>,
      <<"U+1F79", <<"U+1FF9">>>>, <<"U+1F7A", <<"U+1FEA">>>>,
      <<"U+1F7B", <<"U+1FEB">>>>, <<"U+1F7C", <<"U+1FFA">>>>,
      <<"U+1F7D", <<"U+1FFB">>>>, <<"U+1F80", <<"U+1F08", "U+0399">>>>,
      <<"U+1F81", <<"U+1F09", "U+0399">>>>,
      <<"U+1F82", <<"U+1F0A", "U+0399">>>>,
      <<"U+1F83", <<"U+1F0B", "U+0399">>>>,
      <<"U+1F84", <<"U+1F0C", "U+0399">>>>,
      <<"U+1F85", <<"U+1F0D", "U+0399">>>>,
      <<"U+1F86", <<"U+1F0E", "U+0399">>>>,
      <<"U+1F87", <<"U+1F0F", "U+0399">>>>,
      <<"U+1F88", <<"U+1F08", "U+0399">>>>,
      <<"U+1F89", <<"U+1F09", "U+0399">>>>,
      <<"U+1F8A", <<"U+1F0A", "U+0399">>>>,
      <<"U+1F8B", <<"U+1F0B", "U+0399">>>>,
      <<"U+1F8C", <<"U+1F0C", "U+0399">>>>,
      <<"U+1F8D", <<"U+1F0D", "U+0399">>>>,
      <<"U+1F8E", <<"U+1F0E", "U+0399">>>>,
      <<"U+1F8F", <<"U+1F0F", "U+0399">>>>,
      <<"U+1F90", <<"U+1F28", "U+0399">>>>,
      <<"U+1F91", <<"U+1F29", "U+0399">>>>,
      <<"U+1F92", <<"U+1F2A", "U+0399">>>>,
      <<"U+1F93", <<"U+1F2B", "U+0399">>>>,
      <<"U+1F94", <<"U+1F2C", "U+0399">>>>,
      <<"U+1F95", <<"U+1F2D", "U+0399">>>>,
      <<"U+1F96", <<"U+1F2E", "U+0399">>>>,
      <<"U+1F97", <<"U+1F2F", "U+0399">>>>,
      <<"U+1F98", <<"U+1F28", "U+0399">>>>,
      <<"U+1F99", <<"U+1F29", "U+0399">>>>,
      <<"U+1F9A", <<"U+1F2A", "U+0399">>>>,
      <<"U+1F9B", <<"U+1F2B", "U+0399">>>>,
      <<"U+1F9C", <<"U+1F2C", "U+0399">>>>,
      <<"U+1F9D", <<"U+1F2D", "U+0399">>>>,
      <<"U+1F9E", <<"U+1F2E", "U+0399">>>>,
      <<"U+1F9F", <<"U+1F2F", "U+0399">>>>,
      <<"U+1FA0", <<"U+1F68", "U+0399">>>>,
      <<"U+1FA1", <<"U+1F69", "U+0399">>>>,
      <<"U+1FA2", <<"U+1F6A", "U+0399">>>>,
      <<"U+1FA3", <<"U+1F6B", "U+0399">>>>,
      <<"U+1FA4", <<"U+1F6C", "U+0399">>>>,
      <<"U+1FA5", <<"U+1F6D", "U+0399">>>>,
      <<"U+1FA6", <<"U+1F6E", "U+0399">>>>,
      <<"U+1FA7", <<"U+1F6F", "U+0399">>>>,
      <<"U+1FA8", <<"U+1F68", "U+0399">>>>,
      <<"U+1FA9", <<"U+1F69", "U+0399">>>>,
      <<"U+1FAA", <<"U+1F6A", "U+0399">>>>,
      <<"U+1FAB", <<"U+1F6B", "U+0399">>>>,
      <<"U+1FAC", <<"U+1F6C", "U+0399">>>>,
      <<"U+1FAD", <<"U+1F6D", "U+0399">>>>,
      <<"U+1FAE", <<"U+1F6E", "U+0399">>>>,
      <<"U+1FAF", <<"U+1F6F", "U+0399">>>>, <<"U+1FB0", <<"U+1FB8">>>>,
      <<"U+1FB1", <<"U+1FB9">>>>, <<"U+1FB2", <<"U+1FBA", "U+0399">>>>,
      <<"U+1FB3", <<"U+0391", "U+0399">>>>,
      <<"U+1FB4", <<"U+0386", "U+0399">>>>,
      <<"U+1FB6", <<"U+0391", "U+0342">>>>,
      <<"U+1FB7", <<"U+0391", "U+0342", "U+0399">>>>,
      <<"U+1FBC", <<"U+0391", "U+0399">>>>, <<"U+1FBE", <<"U+0399">>>>,
      <<"U+1FC2", <<"U+1FCA", "U+0399">>>>,
      <<"U+1FC3", <<"U+0397", "U+0399">>>>,
      <<"U+1FC4", <<"U+0389", "U+0399">>>>,
      <<"U+1FC6", <<"U+0397", "U+0342">>>>,
      <<"U+1FC7", <<"U+0397", "U+0342", "U+0399">>>>,
      <<"U+1FCC", <<"U+0397", "U+0399">>>>, <<"U+1FD0", <<"U+1FD8">>>>,
      <<"U+1FD1", <<"U+1FD9">>>>,
      <<"U+1FD2", <<"U+0399", "U+0308", "U+0300">>>>,
      <<"U+1FD3", <<"U+0399", "U+0308", "U+0301">>>>,
      <<"U+1FD6", <<"U+0399", "U+0342">>>>,
      <<"U+1FD7", <<"U+0399", "U+0308", "U+0342">>>>,
      <<"U+1FE0", <<"U+1FE8">>>>, <<"U+1FE1", <<"U+1FE9">>>>,
      <<"U+1FE2", <<"U+03A5", "U+0308", "U+0300">>>>,
      <<"U+1FE3", <<"U+03A5", "U+0308", "U+0301">>>>,
      <<"U+1FE4", <<"U+03A1", "U+0313">>>>, <<"U+1FE5", <<"U+1FEC">>>>,
      <<"U+1FE6", <<"U+03A5", "U+0342">>>>,
      <<"U+1FE7", <<"U+03A5", "U+0308", "U+0342">>>>,
      <<"U+1FF2", <<"U+1FFA", "U+0399">>>>,
      <<"U+1FF3", <<"U+03A9", "U+0399">>>>,
      <<"U+1FF4", <<"U+038F", "U+0399">>>>,
      <<"U+1FF6", <<"U+03A9", "U+0342">>>>,
      <<"U+1FF7", <<"U+03A9", "U+0342", "U+0399">>>>,
      <<"U+1FFC", <<"U+03A9", "U+0399">>>>, <<"U+214E", <<"U+2132">>>>,
      <<"U+2170", <<"U+2160">>>>, <<"U+2171", <<"U+2161">>>>,
      <<"U+2172", <<"U+2162">>>>, <<"U+2173", <<"U+2163">>>>,
      <<"U+2174", <<"U+2164">>>>, <<"U+2175", <<"U+2165">>>>,
      <<"U+2176", <<"U+2166">>>>, <<"U+2177", <<"U+2167">>>>,
      <<"U+2178", <<"U+2168">>>>, <<"U+2179", <<"U+2169">>>>,
      <<"U+217A", <<"U+216A">>>>, <<"U+217B", <<"U+216B">>>>,
      <<"U+217C", <<"U+216C">>>>, <<"U+217D", <<"U+216D">>>>,
      <<"U+217E", <<"U+216E">>>>, <<"U+217F", <<"U+216F">>>>,
      <<"U+2184", <<"U+2183">>>>, <<"U+24D0", <<"U+24B6">>>>,
      <<"U+24D1", <<"U+24B7">>>>, <<"U+24D2", <<"U+24B8">>>>,
      <<"U+24D3", <<"U+24B9">>>>, <<"U+24D4", <<"U+24BA">>>>,
      <<"U+24D5", <<"U+24BB">>>>, <<"U+24D6", <<"U+24BC">>>>,
      <<"U+24D7", <<"U+24BD">>>>, <<"U+24D8", <<"U+24BE">>>>,
      <<"U+24D9", <<"U+24BF">>>>, <<"U+24DA", <<"U+24C0">>>>,
      <<"U+24DB", <<"U+24C1">>>>, <<"U+24DC", <<"U+24C2">>>>,
      <<"U+24DD", <<"U+24C3">>>>, <<"U+24DE", <<"U+24C4">>>>,
      <<"U+24DF", <<"U+24C5">>>>, <<"U+24E0", <<"U+24C6">>>>,
      <<"U+24E1", <<"U+24C7">>>>, <<"U+24E2", <<"U+24C8">>>>,
      <<"U+24E3", <<"U+24C9">>>>, <<"U+24E4", <<"U+24CA">>>>,
      <<"U+24E5", <<"U+24CB">>>>, <<"U+24E6", <<"U+24CC">>>>,
      <<"U+24E7", <<"U+24CD">>>>, <<"U+24E8", <<"U+24CE">>>>,
      <<"U+24E9", <<"U+24CF">>>>, <<"U+2C30", <<"U+2C00">>>>,
      <<"U+2C31", <<"U+2C01">>>>, <<"U+2C32", <<"U+2C02">>>>,
      <<"U+2C33", <<"U+2C03">>>>, <<"U+2C34", <<"U+2C04">>>>,
      <<"U+2C35", <<"U+2C05">>>>, <<"U+2C36", <<"U+2C06">>>>,
      <<"U+2C37", <<"U+2C07">>>>, <<"U+2C38", <<"U+2C08">>>>,
      <<"U+2C39", <<"U+2C09">>>>, <<"U+2C3A", <<"U+2C0A">>>>,
      <<"U+2C3B", <<"U+2C0B">>>>, <<"U+2C3C", <<"U+2C0C">>>>,
      <<"U+2C3D", <<"U+2C0D">>>>, <<"U+2C3E", <<"U+2C0E">>>>,
      <<"U+2C3F", <<"U+2C0F">>>>, <<"U+2C40", <<"U+2C10">>>>,
      <<"U+2C41", <<"U+2C11">>>>, <<"U+2C42", <<"U+2C12">>>>,
      <<"U+2C43", <<"U+2C13">>>>, <<"U+2C44", <<"U+2C14">>>>,
      <<"U+2C45", <<"U+2C15">>>>, <<"U+2C46", <<"U+2C16">>>>,
      <<"U+2C47", <<"U+2C17">>>>, <<"U+2C48", <<"U+2C18">>>>,
      <<"U+2C49", <<"U+2C19">>>>, <<"U+2C4A", <<"U+2C1A">>>>,
      <<"U+2C4B", <<"U+2C1B">>>>, <<"U+2C4C", <<"U+2C1C">>>>,
      <<"U+2C4D", <<"U+2C1D">>>>, <<"U+2C4E", <<"U+2C1E">>>>,
      <<"U+2C4F", <<"U+2C1F">>>>, <<"U+2C50", <<"U+2C20">>>>,
      <<"U+2C51", <<"U+2C21">>>>, <<"U+2C52", <<"U+2C22">>>>,
      <<"U+2C53", <<"U+2C23">>>>, <<"U+2C54", <<"U+2C24">>>>,
      <<"U+2C55", <<"U+2C25">>>>, <<"U+2C56", <<"U+2C26">>>>,
      <<"U+2C57", <<"U+2C27">>>>, <<"U+2C58", <<"U+2C28">>>>,
      <<"U+2C59", <<"U+2C29">>>>, <<"U+2C5A", <<"U+2C2A">>>>,
      <<"U+2C5B", <<"U+2C2B">>>>, <<"U+2C5C", <<"U+2C2C">>>>,
      <<"U+2C5D", <<"U+2C2D">>>>, <<"U+2C5E", <<"U+2C2E">>>>,
      <<"U+2C5F", <<"U+2C2F">>>>, <<"U+2C61", <<"U+2C60">>>>,
      <<"U+2C65", <<"U+023A">>>>, <<"U+2C66", <<"U+023E">>>>,
      <<"U+2C68", <<"U+2C67">>>>, <<"U+2C6A", <<"U+2C69">>>>,
      <<"U+2C6C", <<"U+2C6B">>>>, <<"U+2C73", <<"U+2C72">>>>,
      <<"U+2C76", <<"U+2C75">>>>, <<"U+2C81", <<"U+2C80">>>>,
      <<"U+2C83", <<"U+2C82">>>>, <<"U+2C85", <<"U+2C84">>>>,
      <<"U+2C87", <<"U+2C86">>>>, <<"U+2C89", <<"U+2C88">>>>,
      <<"U+2C8B", <<"U+2C8A">>>>, <<"U+2C8D", <<"U+2C8C">>>>,
      <<"U+2C8F", <<"U+2C8E">>>>, <<"U+2C91", <<"U+2C90">>>>,
      <<"U+2C93", <<"U+2C92">>>>, <<"U+2C95", <<"U+2C94">>>>,
      <<"U+2C97", <<"U+2C96">>>>, <<"U+2C99", <<"U+2C98">>>>,
      <<"U+2C9B", <<"U+2C9A">>>>, <<"U+2C9D", <<"U+2C9C">>>>,
      <<"U+2C9F", <<"U+2C9E">>>>, <<"U+2CA1", <<"U+2CA0">>>>,
      <<"U+2CA3", <<"U+2CA2">>>>, <<"U+2CA5", <<"U+2CA4">>>>,
      <<"U+2CA7", <<"U+2CA6">>>>, <<"U+2CA9", <<"U+2CA8">>>>,
      <<"U+2CAB", <<"U+2CAA">>>>, <<"U+2CAD", <<"U+2CAC">>>>,
      <<"U+2CAF", <<"U+2CAE">>>>, <<"U+2CB1", <<"U+2CB0">>>>,
      <<"U+2CB3", <<"U+2CB2">>>>, <<"U+2CB5", <<"U+2CB4">>>>,
      <<"U+2CB7", <<"U+2CB6">>>>, <<"U+2CB9", <<"U+2CB8">>>>,
      <<"U+2CBB", <<"U+2CBA">>>>, <<"U+2CBD", <<"U+2CBC">>>>,
      <<"U+2CBF", <<"U+2CBE">>>>, <<"U+2CC1", <<"U+2CC0">>>>,
      <<"U+2CC3", <<"U+2CC2">>>>, <<"U+2CC5", <<"U+2CC4">>>>,
      <<"U+2CC7", <<"U+2CC6">>>>, <<"U+2CC9", <<"U+2CC8">>>>,
      <<"U+2CCB", <<"U+2CCA">>>>, <<"U+2CCD", <<"U+2CCC">>>>,
      <<"U+2CCF", <<"U+2CCE">>>>, <<"U+2CD1", <<"U+2CD0">>>>,
      <<"U+2CD3", <<"U+2CD2">>>>, <<"U+2CD5", <<"U+2CD4">>>>,
      <<"U+2CD7", <<"U+2CD6">>>>, <<"U+2CD9", <<"U+2CD8">>>>,
      <<"U+2CDB", <<"U+2CDA">>>>, <<"U+2CDD", <<"U+2CDC">>>>,
      <<"U+2CDF", <<"U+2CDE">>>>, <<"U+2CE1", <<"U+2CE0">>>>,
      <<"U+2CE3", <<"U+2CE2">>>>, <<"U+2CEC", <<"U+2CEB">>>>,
      <<"U+2CEE", <<"U+2CED">>>>, <<"U+2CF3", <<"U+2CF2">>>>,
      <<"U+2D00", <<"U+10A0">>>>, <<"U+2D01", <<"U+10A1">>>>,
      <<"U+2D02", <<"U+10A2">>>>, <<"U+2D03", <<"U+10A3">>>>,
      <<"U+2D04", <<"U+10A4">>>>, <<"U+2D05", <<"U+10A5">>>>,
      <<"U+2D06", <<"U+10A6">>>>, <<"U+2D07", <<"U+10A7">>>>,
      <<"U+2D08", <<"U+10A8">>>>, <<"U+2D09", <<"U+10A9">>>>,
      <<"U+2D0A", <<"U+10AA">>>>, <<"U+2D0B", <<"U+10AB">>>>,
      <<"U+2D0C", <<"U+10AC">>>>, <<"U+2D0D", <<"U+10AD">>>>,
      <<"U+2D0E", <<"U+10AE">>>>, <<"U+2D0F", <<"U+10AF">>>>,
      <<"U+2D10", <<"U+10B0">>>>, <<"U+2D11", <<"U+10B1">>>>,
      <<"U+2D12", <<"U+10B2">>>>, <<"U+2D13", <<"U+10B3">>>>,
      <<"U+2D14", <<"U+10B4">>>>, <<"U+2D15", <<"U+10B5">>>>,
      <<"U+2D16", <<"U+10B6">>>>, <<"U+2D17", <<"U+10B7">>>>,
      <<"U+2D18", <<"U+10B8">>>>, <<"U+2D19", <<"U+10B9">>>>,
      <<"U+2D1A", <<"U+10BA">>>>, <<"U+2D1B", <<"U+10BB">>>>,
      <<"U+2D1C", <<"U+10BC">>>>, <<"U+2D1D", <<"U+10BD">>>>,
      <<"U+2D1E", <<"U+10BE">>>>, <<"U+2D1F", <<"U+10BF">>>>,
      <<"U+2D20", <<"U+10C0">>>>, <<"U+2D21", <<"U+10C1">>>>,
      <<"U+2D22", <<"U+10C2">>>>, <<"U+2D23", <<"U+10C3">>>>,
      <<"U+2D24", <<"U+10C4">>>>, <<"U+2D25", <<"U+10C5">>>>,
      <<"U+2D27", <<"U+10C7">>>>, <<"U+2D2D", <<"U+10CD">>>>,
      <<"U+A641", <<"U+A640">>>>, <<"U+A643", <<"U+A642">>>>,
      <<"U+A645", <<"U+A644">>>>, <<"U+A647", <<"U+A646">>>>,
      <<"U+A649", <<"U+A648">>>>, <<"U+A64B", <<"U+A64A">>>>,
      <<"U+A64D", <<"U+A64C">>>>, <<"U+A64F", <<"U+A64E">>>>,
      <<"U+A651", <<"U+A650">>>>, <<"U+A653", <<"U+A652">>>>,
      <<"U+A655", <<"U+A654">>>>, <<"U+A657", <<"U+A656">>>>,
      <<"U+A659", <<"U+A658">>>>, <<"U+A65B", <<"U+A65A">>>>,
      <<"U+A65D", <<"U+A65C">>>>, <<"U+A65F", <<"U+A65E">>>>,
      <<"U+A661", <<"U+A660">>>>, <<"U+A663", <<"U+A662">>>>,
      <<"U+A665", <<"U+A664">>>>, <<"U+A667", <<"U+A666">>>>,
      <<"U+A669", <<"U+A668">>>>, <<"U+A66B", <<"U+A66A">>>>,
      <<"U+A66D", <<"U+A66C">>>>, <<"U+A681", <<"U+A680">>>>,
      <<"U+A683", <<"U+A682">>>>, <<"U+A685", <<"U+A684">>>>,
      <<"U+A687", <<"U+A686">>>>, <<"U+A689", <<"U+A688">>>>,
      <<"U+A68B", <<"U+A68A">>>>, <<"U+A68D", <<"U+A68C">>>>,
      <<"U+A68F", <<"U+A68E">>>>, <<"U+A691", <<"U+A690">>>>,
      <<"U+A693", <<"U+A692">>>>, <<"U+A695", <<"U+A694">>>>,
      <<"U+A697", <<"U+A696">>>>, <<"U+A699", <<"U+A698">>>>,
      <<"U+A69B", <<"U+A69A">>>>, <<"U+A723", <<"U+A722">>>>,
      <<"U+A725", <<"U+A724">>>>, <<"U+A727", <<"U+A726">>>>,
      <<"U+A729", <<"U+A728">>>>, <<"U+A72B", <<"U+A72A">>>>,
      <<"U+A72D", <<"U+A72C">>>>, <<"U+A72F", <<"U+A72E">>>>,
      <<"U+A733", <<"U+A732">>>>, <<"U+A735", <<"U+A734">>>>,
      <<"U+A737", <<"U+A736">>>>, <<"U+A739", <<"U+A738">>>>,
      <<"U+A73B", <<"U+A73A">>>>, <<"U+A73D", <<"U+A73C">>>>,
      <<"U+A73F", <<"U+A73E">>>>, <<"U+A741", <<"U+A740">>>>,
      <<"U+A743", <<"U+A742">>>>, <<"U+A745", <<"U+A744">>>>,
      <<"U+A747", <<"U+A746">>>>, <<"U+A749", <<"U+A748">>>>,
      <<"U+A74B", <<"U+A74A">>>>, <<"U+A74D", <<"U+A74C">>>>,
      <<"U+A74F", <<"U+A74E">>>>, <<"U+A751", <<"U+A750">>>>,
      <<"U+A753", <<"U+A752">>>>, <<"U+A755", <<"U+A754">>>>,
      <<"U+A757", <<"U+A756">>>>, <<"U+A759", <<"U+A758">>>>,
      <<"U+A75B", <<"U+A75A">>>>, <<"U+A75D", <<"U+A75C">>>>,
      <<"U+A75F", <<"U+A75E">>>>, <<"U+A761", <<"U+A760">>>>,
      <<"U+A763", <<"U+A762">>>>, <<"U+A765", <<"U+A764">>>>,
      <<"U+A767", <<"U+A766">>>>, <<"U+A769", <<"U+A768">>>>,
      <<"U+A76B", <<"U+A76A">>>>, <<"U+A76D", <<"U+A76C">>>>,
      <<"U+A76F", <<"U+A76E">>>>, <<"U+A77A", <<"U+A779">>>>,
      <<"U+A77C", <<"U+A77B">>>>, <<"U+A77F", <<"U+A77E">>>>,
      <<"U+A781", <<"U+A780">>>>, <<"U+A783", <<"U+A782">>>>,
      <<"U+A785", <<"U+A784">>>>, <<"U+A787", <<"U+A786">>>>,
      <<"U+A78C", <<"U+A78B">>>>, <<"U+A791", <<"U+A790">>>>,
      <<"U+A793", <<"U+A792">>>>, <<"U+A794", <<"U+A7C4">>>>,
      <<"U+A797", <<"U+A796">>>>, <<"U+A799", <<"U+A798">>>>,
      <<"U+A79B", <<"U+A79A">>>>, <<"U+A79D", <<"U+A79C">>>>,
      <<"U+A79F", <<"U+A79E">>>>, <<"U+A7A1", <<"U+A7A0">>>>,
      <<"U+A7A3", <<"U+A7A2">>>>, <<"U+A7A5", <<"U+A7A4">>>>,
      <<"U+A7A7", <<"U+A7A6">>>>, <<"U+A7A9", <<"U+A7A8">>>>,
      <<"U+A7B5", <<"U+A7B4">>>>, <<"U+A7B7", <<"U+A7B6">>>>,
      <<"U+A7B9", <<"U+A7B8">>>>, <<"U+A7BB", <<"U+A7BA">>>>,
      <<"U+A7BD", <<"U+A7BC">>>>, <<"U+A7BF", <<"U+A7BE">>>>,
      <<"U+A7C1", <<"U+A7C0">>>>, <<"U+A7C3", <<"U+A7C2">>>>,
      <<"U+A7C8", <<"U+A7C7">>>>, <<"U+A7CA", <<"U+A7C9">>>>,
      <<"U+A7D1", <<"U+A7D0">>>>, <<"U+A7D7", <<"U+A7D6">>>>,
      <<"U+A7D9", <<"U+A7D8">>>>, <<"U+A7F6", <<"U+A7F5">>>>,
      <<"U+AB53", <<"U+A7B3">>>>, <<"U+AB70", <<"U+13A0">>>>,
      <<"U+AB71", <<"U+13A1">>>>, <<"U+AB72", <<"U+13A2">>>>,
      <<"U+AB73", <<"U+13A3">>>>, <<"U+AB74", <<"U+13A4">>>>,
      <<"U+AB75", <<"U+13A5">>>>, <<"U+AB76", <<"U+13A6">>>>,
      <<"U+AB77", <<"U+13A7">>>>, <<"U+AB78", <<"U+13A8">>>>,
      <<"U+AB79", <<"U+13A9">>>>, <<"U+AB7A", <<"U+13AA">>>>,
      <<"U+AB7B", <<"U+13AB">>>>, <<"U+AB7C", <<"U+13AC">>>>,
      <<"U+AB7D", <<"U+13AD">>>>, <<"U+AB7E", <<"U+13AE">>>>,
      <<"U+AB7F", <<"U+13AF">>>>, <<"U+AB80", <<"U+13B0">>>>,
      <<"U+AB81", <<"U+13B1">>>>, <<"U+AB82", <<"U+13B2">>>>,
      <<"U+AB83", <<"U+13B3">>>>, <<"U+AB84", <<"U+13B4">>>>,
      <<"U+AB85", <<"U+13B5">>>>, <<"U+AB86", <<"U+13B6">>>>,
      <<"U+AB87", <<"U+13B7">>>>, <<"U+AB88", <<"U+13B8">>>>,
      <<"U+AB89", <<"U+13B9">>>>, <<"U+AB8A", <<"U+13BA">>>>,
      <<"U+AB8B", <<"U+13BB">>>>, <<"U+AB8C", <<"U+13BC">>>>,
      <<"U+AB8D", <<"U+13BD">>>>, <<"U+AB8E", <<"U+13BE">>>>,
      <<"U+AB8F", <<"U+13BF">>>>, <<"U+AB90", <<"U+13C0">>>>,
      <<"U+AB91", <<"U+13C1">>>>, <<"U+AB92", <<"U+13C2">>>>,
      <<"U+AB93", <<"U+13C3">>>>, <<"U+AB94", <<"U+13C4">>>>,
      <<"U+AB95", <<"U+13C5">>>>, <<"U+AB96", <<"U+13C6">>>>,
      <<"U+AB97", <<"U+13C7">>>>, <<"U+AB98", <<"U+13C8">>>>,
      <<"U+AB99", <<"U+13C9">>>>, <<"U+AB9A", <<"U+13CA">>>>,
      <<"U+AB9B", <<"U+13CB">>>>, <<"U+AB9C", <<"U+13CC">>>>,
      <<"U+AB9D", <<"U+13CD">>>>, <<"U+AB9E", <<"U+13CE">>>>,
      <<"U+AB9F", <<"U+13CF">>>>, <<"U+ABA0", <<"U+13D0">>>>,
      <<"U+ABA1", <<"U+13D1">>>>, <<"U+ABA2", <<"U+13D2">>>>,
      <<"U+ABA3", <<"U+13D3">>>>, <<"U+ABA4", <<"U+13D4">>>>,
      <<"U+ABA5", <<"U+13D5">>>>, <<"U+ABA6", <<"U+13D6">>>>,
      <<"U+ABA7", <<"U+13D7">>>>, <<"U+ABA8", <<"U+13D8">>>>,
      <<"U+ABA9", <<"U+13D9">>>>, <<"U+ABAA", <<"U+13DA">>>>,
      <<"U+ABAB", <<"U+13DB">>>>, <<"U+ABAC", <<"U+13DC">>>>,
      <<"U+ABAD", <<"U+13DD">>>>, <<"U+ABAE", <<"U+13DE">>>>,
      <<"U+ABAF", <<"U+13DF">>>>, <<"U+ABB0", <<"U+13E0">>>>,
      <<"U+ABB1", <<"U+13E1">>>>, <<"U+ABB2", <<"U+13E2">>>>,
      <<"U+ABB3", <<"U+13E3">>>>, <<"U+ABB4", <<"U+13E4">>>>,
      <<"U+ABB5", <<"U+13E5">>>>, <<"U+ABB6", <<"U+13E6">>>>,
      <<"U+ABB7", <<"U+13E7">>>>, <<"U+ABB8", <<"U+13E8">>>>,
      <<"U+ABB9", <<"U+13E9">>>>, <<"U+ABBA", <<"U+13EA">>>>,
      <<"U+ABBB", <<"U+13EB">>>>, <<"U+ABBC", <<"U+13EC">>>>,
      <<"U+ABBD", <<"U+13ED">>>>, <<"U+ABBE", <<"U+13EE">>>>,
      <<"U+ABBF", <<"U+13EF">>>>, <<"U+FB00", <<"F", "F">>>>,
      <<"U+FB01", <<"F", "I">>>>, <<"U+FB02", <<"F", "L">>>>,
      <<"U+FB03", <<"F", "F", "I">>>>, <<"U+FB04", <<"F", "F", "L">>>>,
      <<"U+FB05", <<"S", "T">>>>, <<"U+FB06", <<"S", "T">>>>,
      <<"U+FB13", <<"U+0544", "U+0546">>>>,
      <<"U+FB14", <<"U+0544", "U+0535">>>>,
      <<"U+FB15", <<"U+0544", "U+053B">>>>,
      <<"U+FB16", <<"U+054E", "U+0546">>>>,
      <<"U+FB17", <<"U+0544", "U+053D">>>>, <<"U+FF41", <<"U+FF21">>>>,
      <<"U+FF42", <<"U+FF22">>>>, <<"U+FF43", <<"U+FF23">>>>,
      <<"U+FF44", <<"U+FF24">>>>, <<"U+FF45", <<"U+FF25">>>>,
      <<"U+FF46", <<"U+FF26">>>>, <<"U+FF47", <<"U+FF27">>>>,
      <<"U+FF48", <<"U+FF28">>>>, <<"U+FF49", <<"U+FF29">>>>,
      <<"U+FF4A", <<"U+FF2A">>>>, <<"U+FF4B", <<"U+FF2B">>>>,
      <<"U+FF4C", <<"U+FF2C">>>>, <<"U+FF4D", <<"U+FF2D">>>>,
      <<"U+FF4E", <<"U+FF2E">>>>, <<"U+FF4F", <<"U+FF2F">>>>,
      <<"U+FF50", <<"U+FF30">>>>, <<"U+FF51", <<"U+FF31">>>>,
      <<"U+FF52", <<"U+FF32">>>>, <<"U+FF53", <<"U+FF33">>>>,
      <<"U+FF54", <<"U+FF34">>>>, <<"U+FF55", <<"U+FF35">>>>,
      <<"U+FF56", <<"U+FF36">>>>, <<"U+FF57", <<"U+FF37">>>>,
      <<"U+FF58", <<"U+FF38">>>>, <<"U+FF59", <<"U+FF39">>>>,
      <<"U+FF5A", <<"U+FF3A">>>>, <<"U+10428", <<"U+10400">>>>,
      <<"U+10429", <<"U+10401">>>>, <<"U+1042A", <<"U+10402">>>>,
      <<"U+1042B", <<"U+10403">>>>, <<"U+1042C", <<"U+10404">>>>,
      <<"U+1042D", <<"U+10405">>>>, <<"U+1042E", <<"U+10406">>>>,
      <<"U+1042F", <<"U+10407">>>>, <<"U+10430", <<"U+10408">>>>,
      <<"U+10431", <<"U+10409">>>>, <<"U+10432", <<"U+1040A">>>>,
      <<"U+10433", <<"U+1040B">>>>, <<"U+10434", <<"U+1040C">>>>,
      <<"U+10435", <<"U+1040D">>>>, <<"U+10436", <<"U+1040E">>>>,
      <<"U+10437", <<"U+1040F">>>>, <<"U+10438", <<"U+10410">>>>,
      <<"U+10439", <<"U+10411">>>>, <<"U+1043A", <<"U+10412">>>>,
      <<"U+1043B", <<"U+10413">>>>, <<"U+1043C", <<"U+10414">>>>,
      <<"U+1043D", <<"U+10415">>>>, <<"U+1043E", <<"U+10416">>>>,
      <<"U+1043F", <<"U+10417">>>>, <<"U+10440", <<"U+10418">>>>,
      <<"U+10441", <<"U+10419">>>>, <<"U+10442", <<"U+1041A">>>>,
      <<"U+10443", <<"U+1041B">>>>, <<"U+10444", <<"U+1041C">>>>,
      <<"U+10445", <<"U+1041D">>>>, <<"U+10446", <<"U+1041E">>>>,
      <<"U+10447", <<"U+1041F">>>>, <<"U+10448", <<"U+10420">>>>,
      <<"U+10449", <<"U+10421">>>>, <<"U+1044A", <<"U+10422">>>>,
      <<"U+1044B", <<"U+10423">>>>, <<"U+1044C", <<"U+10424">>>>,
      <<"U+1044D", <<"U+10425">>>>, <<"U+1044E", <<"U+10426">>>>,
      <<"U+1044F", <<"U+10427">>>>, <<"U+104D8", <<"U+104B0">>>>,
      <<"U+104D9", <<"U+104B1">>>>, <<"U+104DA", <<"U+104B2">>>>,
      <<"U+104DB", <<"U+104B3">>>>, <<"U+104DC", <<"U+104B4">>>>,
      <<"U+104DD", <<"U+104B5">>>>, <<"U+104DE", <<"U+104B6">>>>,
      <<"U+104DF", <<"U+104B7">>>>, <<"U+104E0", <<"U+104B8">>>>,
      <<"U+104E1", <<"U+104B9">>>>, <<"U+104E2", <<"U+104BA">>>>,
      <<"U+104E3", <<"U+104BB">>>>, <<"U+104E4", <<"U+104BC">>>>,
      <<"U+104E5", <<"U+104BD">>>>, <<"U+104E6", <<"U+104BE">>>>,
      <<"U+104E7", <<"U+104BF">>>>, <<"U+104E8", <<"U+104C0">>>>,
      <<"U+104E9", <<"U+104C1">>>>, <<"U+104EA", <<"U+104C2">>>>,
      <<"U+104EB", <<"U+104C3">>>>, <<"U+104EC", <<"U+104C4">>>>,
      <<"U+104ED", <<"U+104C5">>>>, <<"U+104EE", <<"U+104C6">>>>,
      <<"U+104EF", <<"U+104C7">>>>, <<"U+104F0", <<"U+104C8">>>>,
      <<"U+104F1", <<"U+104C9">>>>, <<"U+104F2", <<"U+104CA">>>>,
      <<"U+104F3", <<"U+104CB">>>>, <<"U+104F4", <<"U+104CC">>>>,
      <<"U+104F5", <<"U+104CD">>>>, <<"U+104F6", <<"U+104CE">>>>,
      <<"U+104F7", <<"U+104CF">>>>, <<"U+104F8", <<"U+104D0">>>>,
      <<"U+104F9", <<"U+104D1">>>>, <<"U+104FA", <<"U+104D2">>>>,
      <<"U+104FB", <<"U+104D3">>>>, <<"U+10597", <<"U+10570">>>>,
      <<"U+10598", <<"U+10571">>>>, <<"U+10599", <<"U+10572">>>>,
      <<"U+1059A", <<"U+10573">>>>, <<"U+1059B", <<"U+10574">>>>,
      <<"U+1059C", <<"U+10575">>>>, <<"U+1059D", <<"U+10576">>>>,
      <<"U+1059E", <<"U+10577">>>>, <<"U+1059F", <<"U+10578">>>>,
      <<"U+105A0", <<"U+10579">>>>, <<"U+105A1", <<"U+1057A">>>>,
      <<"U+105A3", <<"U+1057C">>>>, <<"U+105A4", <<"U+1057D">>>>,
      <<"U+105A5", <<"U+1057E">>>>, <<"U+105A6", <<"U+1057F">>>>,
      <<"U+105A7", <<"U+10580">>>>, <<"U+105A8", <<"U+10581">>>>,
      <<"U+105A9", <<"U+10582">>>>, <<"U+105AA", <<"U+10583">>>>,
      <<"U+105AB", <<"U+10584">>>>, <<"U+105AC", <<"U+10585">>>>,
      <<"U+105AD", <<"U+10586">>>>, <<"U+105AE", <<"U+10587">>>>,
      <<"U+105AF", <<"U+10588">>>>, <<"U+105B0", <<"U+10589">>>>,
      <<"U+105B1", <<"U+1058A">>>>, <<"U+105B3", <<"U+1058C">>>>,
      <<"U+105B4", <<"U+1058D">>>>, <<"U+105B5", <<"U+1058E">>>>,
      <<"U+105B6", <<"U+1058F">>>>, <<"U+105B7", <<"U+10590">>>>,
      <<"U+105B8", <<"U+10591">>>>, <<"U+105B9", <<"U+10592">>>>,
      <<"U+105BB", <<"U+10594">>>>, <<"U+105BC", <<"U+10595">>>>,
      <<"U+10CC0", <<"U+10C80">>>>, <<"U+10CC1", <<"U+10C81">>>>,
      <<"U+10CC2", <<"U+10C82">>>>, <<"U+10CC3", <<"U+10C83">>>>,
      <<"U+10CC4", <<"U+10C84">>>>, <<"U+10CC5", <<"U+10C85">>>>,
      <<"U+10CC6", <<"U+10C86">>>>, <<"U+10CC7", <<"U+10C87">>>>,
      <<"U+10CC8", <<"U+10C88">>>>, <<"U+10CC9", <<"U+10C89">>>>,
      <<"U+10CCA", <<"U+10C8A">>>>, <<"U+10CCB", <<"U+10C8B">>>>,
      <<"U+10CCC", <<"U+10C8C">>>>, <<"U+10CCD", <<"U+10C8D">>>>,
      <<"U+10CCE", <<"U+10C8E">>>>, <<"U+10CCF", <<"U+10C8F">>>>,
      <<"U+10CD0", <<"U+10C90">>>>, <<"U+10CD1", <<"U+10C91">>>>,
      <<"U+10CD2", <<"U+10C92">>>>, <<"U+10CD3", <<"U+10C93">>>>,
      <<"U+10CD4", <<"U+10C94">>>>, <<"U+10CD5", <<"U+10C95">>>>,
      <<"U+10CD6", <<"U+10C96">>>>, <<"U+10CD7", <<"U+10C97">>>>,
      <<"U+10CD8", <<"U+10C98">>>>, <<"U+10CD9", <<"U+10C99">>>>,
      <<"U+10CDA", <<"U+10C9A">>>>, <<"U+10CDB", <<"U+10C9B">>>>,
      <<"U+10CDC", <<"U+10C9C">>>>, <<"U+10CDD", <<"U+10C9D">>>>,
      <<"U+10CDE", <<"U+10C9E">>>>, <<"U+10CDF", <<"U+10C9F">>>>,
      <<"U+10CE0", <<"U+10CA0">>>>, <<"U+10CE1", <<"U+10CA1">>>>,
      <<"U+10CE2", <<"U+10CA2">>>>, <<"U+10CE3", <<"U+10CA3">>>>,
      <<"U+10CE4", <<"U+10CA4">>>>, <<"U+10CE5", <<"U+10CA5">>>>,
      <<"U+10CE6", <<"U+10CA6">>>>, <<"U+10CE7", <<"U+10CA7">>>>,
      <<"U+10CE8", <<"U+10CA8">>>>, <<"U+10CE9", <<"U+10CA9">>>>,
      <<"U+10CEA", <<"U+10CAA">>>>, <<"U+10CEB", <<"U+10CAB">>>>,
      <<"U+10CEC", <<"U+10CAC">>>>, <<"U+10CED", <<"U+10CAD">>>>,
      <<"U+10CEE", <<"U+10CAE">>>>, <<"U+10CEF", <<"U+10CAF">>>>,
      <<"U+10CF0", <<"U+10CB0">>>>, <<"U+10CF1", <<"U+10CB1">>>>,
      <<"U+10CF2", <<"U+10CB2">>>>, <<"U+118C0", <<"U+118A0">>>>,
      <<"U+118C1", <<"U+118A1">>>>, <<"U+118C2", <<"U+118A2">>>>,
      <<"U+118C3", <<"U+118A3">>>>, <<"U+118C4", <<"U+118A4">>>>,
      <<"U+118C5", <<"U+118A5">>>>, <<"U+118C6", <<"U+118A6">>>>,
      <<"U+118C7", <<"U+118A7">>>>, <<"U+118C8", <<"U+118A8">>>>,
      <<"U+118C9", <<"U+118A9">>>>, <<"U+118CA", <<"U+118AA">>>>,
      <<"U+118CB", <<"U+118AB">>>>, <<"U+118CC", <<"U+118AC">>>>,
      <<"U+118CD", <<"U+118AD">>>>, <<"U+118CE", <<"U+118AE">>>>,
      <<"U+118CF", <<"U+118AF">>>>, <<"U+118D0", <<"U+118B0">>>>,
      <<"U+118D1", <<"U+118B1">>>>, <<"U+118D2", <<"U+118B2">>>>,
      <<"U+118D3", <<"U+118B3">>>>, <<"U+118D4", <<"U+118B4">>>>,
      <<"U+118D5", <<"U+118B5">>>>, <<"U+118D6", <<"U+118B6">>>>,
      <<"U+118D7", <<"U+118B7">>>>, <<"U+118D8", <<"U+118B8">>>>,
      <<"U+118D9", <<"U+118B9">>>>, <<"U+118DA", <<"U+118BA">>>>,
      <<"U+118DB", <<"U+118BB">>>>, <<"U+118DC", <<"U+118BC">>>>,
      <<"U+118DD", <<"U+118BD">>>>, <<"U+118DE", <<"U+118BE">>>>,
      <<"U+118DF", <<"U+118BF">>>>, <<"U+16E60", <<"U+16E40">>>>,
      <<"U+16E61", <<"U+16E41">>>>, <<"U+16E62", <<"U+16E42">>>>,
      <<"U+16E63", <<"U+16E43">>>>, <<"U+16E64", <<"U+16E44">>>>,
      <<"U+16E65", <<"U+16E45">>>>, <<"U+16E66", <<"U+16E46">>>>,
      <<"U+16E67", <<"U+16E47">>>>, <<"U+16E68", <<"U+16E48">>>>,
      <<"U+16E69", <<"U+16E49">>>>, <<"U+16E6A", <<"U+16E4A">>>>,
      <<"U+16E6B", <<"U+16E4B">>>>, <<"U+16E6C", <<"U+16E4C">>>>,
      <<"U+16E6D", <<"U+16E4D">>>>, <<"U+16E6E", <<"U+16E4E">>>>,
      <<"U+16E6F", <<"U+16E4F">>>>, <<"U+16E70", <<"U+16E50">>>>,
      <<"U+16E71", <<"U+16E51">>>>, <<"U+16E72", <<"U+16E52">>>>,
      <<"U+16E73", <<"U+16E53">>>>, <<"U+16E74", <<"U+16E54">>>>,
      <<"U+16E75", <<"U+16E55">>>>, <<"U+16E76", <<"U+16E56">>>>,
      <<"U+16E77", <<"U+16E57">>>>, <<"U+16E78", <<"U+16E58">>>>,
      <<"U+16E79", <<"U+16E59">>>>, <<"U+16E7A", <<"U+16E5A">>>>,
      <<"U+16E7B", <<"U+16E5B">>>>, <<"U+16E7C", <<"U+16E5C">>>>,
      <<"U+16E7D", <<"U+16E5D">>>>, <<"U+16E7E", <<"U+16E5E">>>>,
      <<"U+16E7F", <<"U+16E5F">>>>, <<"U+1E922", <<"U+1E900">>>>,
      <<"U+1E923", <<"U+1E901">>>>, <<"U+1E924", <<"U+1E902">>>>,
      <<"U+1E925", <<"U+1E903">>>>, <<"U+1E926", <<"U+1E904">>>>,
      <<"U+1E927", <<"U+1E905">>>>, <<"U+1E928", <<"U+1E906">>>>,
      <<"U+1E929", <<"U+1E907">>>>, <<"U+1E92A", <<"U+1E908">>>>,
      <<"U+1E92B", <<"U+1E909">>>>, <<"U+1E92C", <<"U+1E90A">>>>,
      <<"U+1E92D", <<"U+1E90B">>>>, <<"U+1E92E", <<"U+1E90C">>>>,
      <<"U+1E92F", <<"U+1E90D">>>>, <<"U+1E930", <<"U+1E90E">>>>,
      <<"U+1E931", <<"U+1E90F">>>>, <<"U+1E932", <<"U+1E910">>>>,
      <<"U+1E933", <<"U+1E911">>>>, <<"U+1E934", <<"U+1E912">>>>,
      <<"U+1E935", <<"U+1E913">>>>, <<"U+1E936", <<"U+1E914">>>>,
      <<"U+1E937", <<"U+1E915">>>>, <<"U+1E938", <<"U+1E916">>>>,
      <<"U+1E939", <<"U+1E917">>>>, <<"U+1E93A", <<"U+1E918">>>>,
      <<"U+1E93B", <<"U+1E919">>>>, <<"U+1E93C", <<"U+1E91A">>>>,
      <<"U+1E93D", <<"U+1E91B">>>>, <<"U+1E93E", <<"U+1E91C">>>>,
      <<"U+1E93F", <<"U+1E91D">>>>, <<"U+1E940", <<"U+1E91E">>>>,
      <<"U+1E941", <<"U+1E91F">>>>, <<"U+1E942", <<"U+1E920">>>>,
      <<"U+1E943", <<"U+1E921">>>> }

UpperMap ==
    [c \in { p[1] : p \in UpperTable } |->
         (CHOOSE p \in UpperTable : p[1] = c)[2]]

\* str.upper(): character by character; some become several (the sharp s
\* becomes SS).
RECURSIVE Upper(_)
Upper(s) ==
    IF s = <<>> THEN <<>>
    ELSE (IF Head(s) \in DOMAIN UpperMap THEN UpperMap[Head(s)]
          ELSE <<Head(s)>>)
         \o Upper(Tail(s))

\* s.split('-')[0]: the text before the first '-' (all of s when it has none).
RECURSIVE FirstPart(_)
FirstPart(s) ==
    IF s = <<>> \/ Head(s) = "-" THEN <<>>
    ELSE <<Head(s)>> \o FirstPart(Tail(s))

\* sub in s
Contains(s, sub) ==
    \E i \in 1..(Len(s) - Len(sub) + 1) : SubSeq(s, i, i + Len(sub) - 1) = sub

NotParen(c) == c \notin {"(", ")"}

\* t.replace("(", "").replace(")", "")
StripParens(t) == SelectSeq(t, NotParen)

(***************************************************************************)
(* Room enrichment: get_room_details.                                      *)
(***************************************************************************)
\* os.getenv: the variable is not set, or set to a text.
Unset == [set |-> FALSE]

SetTo(text) == [set |-> TRUE, value |-> text]

\* Line 84: the variable when it is set to a text that is not empty.
SERVER_URL ==
    IF RENDER_EXTERNAL_URL.set /\ RENDER_EXTERNAL_URL.value # <<>>
    THEN RENDER_EXTERNAL_URL.value
    ELSE <<"http://localhost:8080">>

ONLINE == <<"O", "N", "L", "I", "N", "E">>

\* The building labels of the source, one piece each.
LabelGeneric == <<"akhan ">>                      \* line 91, before the prefix
LabelS       == <<"tuek 100 pi (somdet phra thep)">>
LabelP       == <<"akhan witthayasat (P)">>
LabelL       == <<"akhan rian ruam (L)">>
LabelOnline  == <<"rian online cha">>
LabelQS2     == <<"akhan phumiratchanakharin (QS2)">>
LabelKB      == <<"akhan KB (KB)">>
LabelSC      == <<"akhan witthayasat (SC)">>
LabelEN      == <<"khana witsawakammasat">>

valid_extensions == << <<".jpg">>, <<".png">>, <<".jpeg">> >>

building_name(room_code) ==
    LET rc     == Strip(room_code)
        prefix == Strip(Upper(FirstPart(rc)))
    IN  IF prefix = <<"S">> THEN LabelS
        ELSE IF prefix = <<"P">> THEN LabelP
        ELSE IF prefix = <<"L">> THEN LabelL
        ELSE IF prefix = <<"A", "R", "R">> \/ Contains(Upper(rc), ONLINE)
             THEN LabelOnline
        ELSE IF prefix = <<"Q", "S", "2">> THEN LabelQS2
        ELSE IF prefix = <<"K", "B">> THEN LabelKB
        ELSE IF prefix = <<"S", "C">> THEN LabelSC
        ELSE IF prefix = <<"E", "N">> THEN LabelEN
        ELSE LabelGeneric \o prefix

\* Lines 36-37.  A path is the list of its names from the root.
STATIC_DIR == BASE_DIR \o << <<"s", "t", "a", "t", "i", "c">> >>

MAPS_DIR == STATIC_DIR \o << <<"m", "a", "p", "s">> >>

\* The names of a path text, the texts between its separators.
RECURSIVE SplitPath(_)
SplitPath(s) ==
    IF \A k \in DOMAIN s : s[k] # "/" THEN <<s>>
    ELSE LET k == CHOOSE i \in DOMAIN s :
                      s[i] = "/" /\ \A j \in 1..(i - 1) : s[j] # "/"
         IN  <<SubSeq(s, 1, k - 1)>> \o SplitPath(SubSeq(s, k + 1, Len(s)))

IsPrefix(p, q) == Len(p) <= Len(q) /\ SubSeq(q, 1, Len(p)) = p

\* The regular files: those of the listing of static/maps and the others.
IsFile(path, files) ==
    \/ path \in elsewhere.files
    \/ \E n \in files : path = MAPS_DIR \o <<n>>

\* The directories: static/maps (lines 39-40 make it) and the directories
\* above it, the other directories, and those above any file or directory.
IsDir(path, files) ==
    \/ IsPrefix(path, MAPS_DIR)
    \/ path \in elsewhere.dirs
    \/ \E q \in elsewhere.files \cup elsewhere.dirs :
          IsPrefix(path, q) /\ path # q

NotFound == [found |-> FALSE]

\* The lookup of a path by the system, name by name from the directory cur:
\* an empty name and "." stay, ".." goes up (the root stays), a name of a
\* directory goes down, a name of a file ends the lookup when it is the
\* last name, and any other name fails it.  A POSIX file system without
\* links.
RECURSIVE Walk(_, _, _)
Walk(cur, names, files) ==
    IF names = <<>> THEN [found |-> TRUE, path |-> cur]
    ELSE LET c == Head(names)
         IN  IF c = <<>> \/ c = <<".">> THEN Walk(cur, Tail(names), files)
             ELSE IF c = <<".", ".">>
             THEN Walk(SubSeq(cur, 1, Len(cur) - 1), Tail(names), files)
             ELSE IF IsDir(cur \o <<c>>, files)
             THEN Walk(cur \o <<c>>, Tail(names), files)
             ELSE IF IsFile(cur \o <<c>>, files) /\ Tail(names) = <<>>
             THEN [found |-> TRUE, path |-> cur \o <<c>>]
             ELSE NotFound

\* os.path.join(MAPS_DIR, filename) looked up: a filename that begins with
\* the separator is taken from the root, any other from static/maps.
Lookup(filename, files) ==
    Walk(IF filename # <<>> /\ Head(filename) = "/" THEN <<>> ELSE MAPS_DIR,
         SplitPath(filename), files)

\* os.path.exists(image_path) of line 106: false for a path the system
\* cannot take (a NUL character in it) and for one the lookup does not find.
os_path_exists(filename, files) ==
    /\ \A k \in DOMAIN filename : filename[k] # "U+0000"
    /\ Lookup(filename, files).found

RECURSIVE ProbeImage(_, _, _)
ProbeImage(rc, files, i) ==
    IF i > Len(valid_extensions) THEN <<>>
    ELSE LET filename == rc \o valid_extensions[i]
         IN  IF os_path_exists(filename, files)
             THEN SERVER_URL \o <<"/static/maps/">> \o filename
             ELSE ProbeImage(rc, files, i + 1)

full_image_url(room_code, files) == ProbeImage(Strip(room_code), files, 1)

get_room_details(room_code, files) ==
    <<building_name(room_code), full_image_url(room_code, files)>>

(***************************************************************************)
(* Reconciliation and dedup: extract_student_info, "Process & Match" and   *)
(* "Group by Subject Code".  A grid row is [day, columns]; a column is the *)
(* token list of one cell.                                                 *)
(***************************************************************************)

\* The (day, col) pairs in the order of the nested loops of lines 216-218.
RECURSIVE FlatEntries(_)
FlatEntries(rows) ==
    IF rows = <<>> THEN <<>>
    ELSE [j \in 1..Len(Head(rows).columns) |->
              [day |-> Head(rows).day, col |-> Head(rows).columns[j]]]
         \o FlatEntries(Tail(rows))

col_code(col) == col[1]

\* A slip of the index: token 1 taken as the room.
col_room_Token1(col) == IF Len(col) > 2 THEN col[2] ELSE Dash

col_room(col) == IF Len(col) > 2 THEN col[3] ELSE Dash

col_time(col) == IF Len(col) > 3 THEN StripParens(col[4]) ELSE Dash

\* f"{code}|{day}|{time_val}"
dedup_key(code, day, time_val) == code \o <<"|">> \o day \o <<"|">> \o time_val

\* The loop body of lines 219-237 applied to entries[i..]; st = [seen, finalTable].
RECURSIVE MatchLoop(_, _, _, _)
MatchLoop(legend, entries, i, st) ==
    IF i > Len(entries) THEN st
    ELSE
        LET day      == entries[i].day
            col      == entries[i].col
            code     == col_code(col)
            room     == col_room(col)
            time_val == col_time(col)
            key      == dedup_key(code, day, time_val)
        IN  IF Len(col) < 1 THEN MatchLoop(legend, entries, i + 1, st)
            ELSE IF key \in st.seen THEN MatchLoop(legend, entries, i + 1, st)
            ELSE MatchLoop(legend, entries, i + 1,
                     [seen |-> st.seen \cup {key},
                      finalTable |->
                          IF code \in DOMAIN legend
                          THEN Append(st.finalTable,
                                   [day |-> day, code |-> code,
                                    name_en |-> legend[code].name_en,
                                    name_th |-> legend[code].name_th,
                                    room |-> room, time |-> time_val])
                          ELSE st.finalTable])

finalTable(legend, rows) ==
    MatchLoop(legend, FlatEntries(rows), 1,
              [seen |-> {}, finalTable |-> <<>>]).finalTable

\* The keys of grouped, in insertion order (a dict keeps it).
RECURSIVE GroupedKeys(_, _)
GroupedKeys(table, acc) ==
    IF table = <<>> THEN acc
    ELSE GroupedKeys(Tail(table),
             IF \E k \in DOMAIN acc : acc[k] = Head(table).code
             THEN acc ELSE Append(acc, Head(table).code))

RECURSIVE SessionsOf(_, _)
SessionsOf(table, code) ==
    IF table = <<>> THEN <<>>
    ELSE (IF Head(table).code = code
          THEN << [day |-> Head(table).day, time |-> Head(table).time,
                   room |-> Head(table).room] >>
          ELSE <<>>) \o SessionsOf(Tail(table), code)

grouped_result(legend, table) ==
    LET codes == GroupedKeys(table, <<>>)
    IN  [k \in 1..Len(codes) |->
            [code |-> codes[k],
             name_en |-> legend[codes[k]].name_en,
             name_th |-> legend[codes[k]].name_th,
             schedules |-> SessionsOf(table, codes[k])]]

\* An outer join: a code absent from the legend is kept, with empty names.
reconcile_OuterJoin(legend, rows) ==
    LET met  == { FlatEntries(rows)[i].col[1] : i \in DOMAIN FlatEntries(rows) }
        full == [c \in (DOMAIN legend) \cup met |->
                    IF c \in DOMAIN legend THEN legend[c]
                    ELSE [code |-> c, name_en |-> <<>>, name_th |-> <<>>]]
    IN  grouped_result(full, finalTable(full, rows))

\* What extract_student_info returns for a legend map and grid rows.
reconcile(legend, rows) == grouped_result(legend, finalTable(legend, rows))

(***************************************************************************)
(* Enrichment of the scraped data: api_login, step 2.                      *)
(***************************************************************************)
enrich_session(session, files) ==
    LET d == get_room_details(session.room, files)
    IN  [day |-> session.day, time |-> session.time, room |-> session.room,
         building |-> d[1], map_image |-> d[2]]

enrich_subject(subject, files) ==
    [subject EXCEPT !.schedules =
        [k \in DOMAIN subject.schedules |->
            enrich_session(subject.schedules[k], files)]]

enriched_schedule(data, files) ==
    [k \in DOMAIN data |-> enrich_subject(data[k], files)]

\* json.dumps / json.loads of a list of dicts of strings and lists: the text
\* is kept as the value it encodes, which these two recover exactly.
json_dumps(v) == [json |-> v]

json_loads(t) == t.json

(***************************************************************************)
(* The values the requests and the portal's pages are drawn from.          *)
(***************************************************************************)
Users     == {"u1", "u2"}
Passwords == {"pw1"}
Tokens    == {"t1", "t2"}
None      == "None"

CodeA  == <<"A">>
CodeB  == <<"B">>
CodeAM == <<"A", "|", "M">>
DayM   == <<"M">>
DayMM  == <<"M", "|", "M">>
DayT   == <<"T">>
RoomS1 == <<"S", "-", "1">>
RoomZ9 == <<"Z", "-", "9">>
Time9  == <<"(", "9", ")">>
G1     == <<"G", "1">>
G2     == <<"G", "2">>

\* The token lists a grid cell may hold: lengths 1, 3 and 4; two cells that
\* differ in token 1 and room only; one code at two times; a code and a day
\* label that hold the key's separator.
CellPool ==
    { <<CodeA, G1, RoomS1, Time9>>,
      <<CodeA, G2, RoomZ9, Time9>>,
      <<CodeA, G1, RoomZ9>>,
      <<CodeAM, G1, RoomS1, Time9>>,
      <<CodeB>> }

GridDays == {DayM, DayMM}

LegendEntry(code) ==
    [code |-> code, name_en |-> <<"en:">> \o code, name_th |-> <<"th:">> \o code]

LegendOf(codes) == [c \in codes |-> LegendEntry(c)]

LegendPool ==
    { LegendOf({}), LegendOf({CodeB}), LegendOf({CodeA, CodeB}),
      LegendOf({CodeA, CodeB, CodeAM}) }

\* The rows of k cells, and the grids of exactly n cells in all.
RowsOf(k) ==
    { [day |-> d, columns |-> cs] : d \in GridDays, cs \in [1..k -> CellPool] }

RECURSIVE GridsOf(_)
GridsOf(n) ==
    IF n = 0 THEN { <<>> }
    ELSE UNION { { <<r>> \o g : r \in RowsOf(k), g \in GridsOf(n - k) } : k \in 1..n }

GridPool == UNION { GridsOf(n) : n \in 0..MaxCells }

\* Grids of one-cell rows, one row more than MaxCells.
LongGridPool == [1..(MaxCells + 1) -> RowsOf(1)]

\* The pages the API-level specification reads.
SampleLegends == { LegendOf({}), LegendOf({CodeA, CodeB}) }

SampleGrids ==
    { <<>>,
      << [day |-> DayM, columns |-> << <<CodeA, G1, RoomS1, Time9>>,
                                       <<CodeA, G1, RoomS1, Time9>> >>],
         [day |-> DayT, columns |-> << <<CodeB, G1, RoomZ9>> >>] >> }

AssetSamples == { {}, { RoomS1 \o <<".png">> } }

\* Room tokens as the grid reader leaves them (trimmed, not empty), and the
\* placeholder: every branch of the building chain, in both letter cases,
\* and the online marker behind prefixes of every kind.
RoomPool ==
    { RoomS1, RoomZ9, Dash,
      <<"s", "-", "1">>, <<"S", " ", "-", "1">>, <<"S", "\t", "-", "1">>,
      <<"d", "-", "1">>,
      <<"P", "-", "2">>, <<"L", "-", "3">>,
      <<"A", "R", "R">>, <<"a", "r", "r", "-", "1">>,
      <<"O", "N", "L", "I", "N", "E">>,
      <<"Z", "-", "o", "n", "l", "i", "n", "e">>,
      <<"S", "-", "O", "N", "L", "I", "N", "E">>,
      <<"L", "-", "O", "N", "L", "I", "N", "E">>,
      <<"Q", "S", "2", "-", "O", "N", "L", "I", "N", "E">>,
      <<"Q", "S", "2", "-", "1">>, <<"K", "B", "-", "1">>,
      <<"S", "C", "-", "1">>, <<"E", "N", "-", "1">>,
      <<"S", "C", "I">>,
      <<"U+017F", "-", "1">>, <<"o", "n", "l", "U+0131", "n", "e">>,
      <<"U+00E0", "-", "1">>, <<"U+00DF", "-", "1">>,
      <<".", "/", "S", "-", "1">>, <<".", ".", "/", "S", "-", "1">>,
      <<"x", "/", ".", ".", "/", "S", "-", "1">>,
      <<"/", "a", "p", "p", "/", "s", "t", "a", "t", "i", "c", "/",
        "m", "a", "p", "s", "/", "S", "-", "1">>,
      <<"S", "-", "1", "U+0000">> }

\* Where the program file lies.
BaseSamples ==
    { << <<"a", "p", "p">> >>, << <<"s", "r", "v">>, <<"a", "p", "i">> >> }

\* Nothing outside the listing; a file of the room's name one directory
\* above static/maps; a directory x in static/maps.
ElsewhereFor(room) ==
    { [files |-> {}, dirs |-> {}],
      [files |-> { STATIC_DIR \o <<room \o <<".png">>>> }, dirs |-> {}],
      [files |-> {}, dirs |-> { MAPS_DIR \o << <<"x">> >> }] }

\* The last name of a room text.
BaseName(room) == SplitPath(room)[Len(SplitPath(room))]

\* The environment variable: not set, set to the empty text, set to a URL.
EnvSamples == { Unset, SetTo(<<>>), SetTo(<<"https://buu.example.org">>) }

\* The listings of static/maps that matter to a room: its three probed
\* names and one name the probe does not ask for.
AssetsFor(room) ==
    SUBSET ( { BaseName(room) \o valid_extensions[i] :
                   i \in DOMAIN valid_extensions }
             \cup { BaseName(room) \o <<".gif">> } )

(***************************************************************************)
(* The users table and the values handed between the layers.               *)
(***************************************************************************)
NoRow == [present |-> FALSE]

Row(token, schedule, updated) ==
    [present |-> TRUE, line_token |-> token, schedule_json |-> schedule,
     last_updated |-> updated]

NoValue == [kind |-> "none"]

Returned(v) == [kind |-> "return", value |-> v]

Raised == [kind |-> "raise"]

NoRequest == [op |-> "none"]

FreshFlags ==
    [form |-> "unchecked", affordance |-> "unchecked",
     submitted |-> FALSE, menu |-> "unchecked", rejected |-> FALSE,
     opened |-> FALSE, gridTimeout |-> FALSE, legendRead |-> FALSE,
     gridRead |-> FALSE, raised |-> FALSE, caught |-> FALSE]

\* What a look for an element found.
Seen(found) == IF found THEN "present" ELSE "absent"

\* What happened in a scrape, in the terms of the failure taxonomy.
OutcomeClass(f) ==
    IF f.raised THEN "UnclassifiedScrapeError"
    ELSE IF f.menu = "absent" /\ f.rejected THEN "WrongPassword"
    ELSE IF f.menu = "absent" THEN "LoginFailedGeneric"
    ELSE IF f.gridTimeout THEN "GridTimeout"
    ELSE "Success"

(***************************************************************************)
(* extract_student_info: the navigator, one action per browser call.  A    *)
(* call made inside the try block that raises goes through the except      *)
(* clause (log, re-raise) to the finally clause.                           *)
(***************************************************************************)
\* What no step of the navigator and no step of /timetable touches.
envVars == <<assets, BASE_DIR, elsewhere, RENDER_EXTERNAL_URL>>

sessionVars == <<txn, requests>>

sideVars == <<envVars, scrapes, sessionVars, digest>>

apiVars == <<db, clock, lastOutcome, response, sideVars>>

tableVars == <<myTable_raw, mainTable_raw>>

counterVars == <<reloads, loginClicks>>

\* An exception raised inside the try block: lines 256-258.
RaiseInTry ==
    /\ pending' = Raised
    /\ flags' = [flags EXCEPT !.raised = TRUE]
    /\ pc' = "finally"

\* An exception raised before the try block: it leaves the with block at once.
RaiseBeforeTry ==
    /\ ret' = Raised
    /\ flags' = [flags EXCEPT !.raised = TRUE]
    /\ playwright' = "stopped"
    /\ pc' = "scrape_exit"

\* p.chromium.launch(...)
Launch ==
    /\ pc = "launch"
    /\ \E ok \in BOOLEAN :
          IF ok
          THEN /\ browser' = "open"
               /\ pc' = "new_context"
               /\ UNCHANGED <<flags, playwright, ret>>
          ELSE RaiseBeforeTry /\ UNCHANGED browser
    /\ UNCHANGED <<req, closeCalls, pending>>
    /\ UNCHANGED <<apiVars, tableVars, counterVars>>

\* browser.new_context(...)
NewContext ==
    /\ pc = "new_context"
    /\ \E ok \in BOOLEAN :
          IF ok
          THEN pc' = "new_page" /\ UNCHANGED <<flags, playwright, ret>>
          ELSE RaiseBeforeTry
    /\ UNCHANGED <<req, browser, closeCalls, pending>>
    /\ UNCHANGED <<apiVars, tableVars, counterVars>>

\* context.new_page()
NewPage ==
    /\ pc = "new_page"
    /\ \E ok \in BOOLEAN :
          IF ok
          THEN pc' = "goto" /\ UNCHANGED <<flags, playwright, ret>>
          ELSE RaiseBeforeTry
    /\ UNCHANGED <<req, browser, closeCalls, pending>>
    /\ UNCHANGED <<apiVars, tableVars, counterVars>>

\* page.goto(..., timeout=60000)
Goto ==
    /\ pc = "goto"
    /\ \E ok \in BOOLEAN :
          IF ok THEN pc' = "wait_load" /\ UNCHANGED <<flags, pending>>
          ELSE RaiseInTry
    /\ UNCHANGED <<req, browser, closeCalls, playwright, ret>>
    /\ UNCHANGED <<apiVars, tableVars, counterVars>>

\* page.wait_for_load_state(...): an exception of the call is caught in
\* place and the scrape goes on (lines 145-146).
WaitLoad ==
    /\ pc = "wait_load"
    /\ \E ok \in BOOLEAN :
          flags' = [flags EXCEPT !.caught = flags.caught \/ ~ok]
    /\ pc' = "check_form"
    /\ UNCHANGED <<req, browser, closeCalls, playwright, pending, ret>>
    /\ UNCHANGED <<apiVars, tableVars, counterVars>>

\* The two looks as two ifs: the affordance is clicked though the form is there.
CheckForm_ClicksAnyway ==
    /\ pc = "check_form"
    /\ \E ok \in BOOLEAN, form \in BOOLEAN, affordance \in BOOLEAN :
          IF ~ok THEN RaiseInTry
          ELSE /\ pc' = IF affordance THEN "click_login"
                        ELSE IF form THEN "wait_form"
                        ELSE "reload"
               /\ flags' = [flags EXCEPT
                     !.form = Seen(form), !.affordance = Seen(affordance)]
               /\ UNCHANGED pending
    /\ UNCHANGED <<req, browser, closeCalls, playwright, ret>>
    /\ UNCHANGED <<apiVars, tableVars, counterVars>>

\* Lines 149-155: the login form, else the login affordance, else a reload.
CheckForm ==
    /\ pc = "check_form"
    /\ \E ok \in BOOLEAN, form \in BOOLEAN, affordance \in BOOLEAN :
          IF ~ok THEN RaiseInTry
          ELSE /\ pc' = IF form THEN "wait_form"
                        ELSE IF affordance THEN "click_login"
                        ELSE "reload"
               /\ flags' = [flags EXCEPT
                     !.form = Seen(form),
                     !.affordance = IF form THEN "unchecked" ELSE Seen(affordance)]
               /\ UNCHANGED pending
    /\ UNCHANGED <<req, browser, closeCalls, playwright, ret>>
    /\ UNCHANGED <<apiVars, tableVars, counterVars>>

\* page.reload(), then the affordance is looked for again: lines 155-157.
Reload ==
    /\ pc = "reload"
    /\ reloads' = reloads + 1
    /\ \E ok \in BOOLEAN, affordance \in BOOLEAN :
          IF ~ok THEN RaiseInTry
          ELSE /\ pc' = IF affordance THEN "click_login" ELSE "wait_form"
               /\ UNCHANGED <<flags, pending>>
    /\ UNCHANGED <<req, browser, closeCalls, playwright, ret, loginClicks>>
    /\ UNCHANGED <<apiVars, tableVars>>

\* page.click on the login affordance: line 152 or line 157.
ClickLogin ==
    /\ pc = "click_login"
    /\ loginClicks' = loginClicks + 1
    /\ \E ok \in BOOLEAN :
          IF ok THEN pc' = "wait_form" /\ UNCHANGED <<flags, pending>>
          ELSE RaiseInTry
    /\ UNCHANGED <<req, browser, closeCalls, playwright, ret, reloads>>
    /\ UNCHANGED <<apiVars, tableVars>>

\* page.wait_for_selector("input[name='f_uid']", timeout=15000)
WaitForm ==
    /\ pc = "wait_form"
    /\ \E ok \in BOOLEAN :
          IF ok THEN pc' = "submit" /\ UNCHANGED <<flags, pending>>
          ELSE RaiseInTry
    /\ UNCHANGED <<req, browser, closeCalls, playwright, ret>>
    /\ UNCHANGED <<apiVars, tableVars, counterVars>>

\* Lines 161-164: fill both fields, submit, settle.
Submit ==
    /\ pc = "submit"
    /\ \E ok \in BOOLEAN :
          IF ok
          THEN /\ flags' = [flags EXCEPT !.submitted = TRUE]
               /\ pc' = "check_menu"
               /\ UNCHANGED pending
          ELSE RaiseInTry
    /\ UNCHANGED <<req, browser, closeCalls, playwright, ret>>
    /\ UNCHANGED <<apiVars, tableVars, counterVars>>

\* The marker test without its return: a run without the marker goes on.
CheckMenu_GoesOn ==
    /\ pc = "check_menu"
    /\ \E ok \in BOOLEAN, menu \in BOOLEAN, rejection \in BOOLEAN :
          IF ~ok THEN RaiseInTry
          ELSE /\ flags' = IF menu THEN [flags EXCEPT !.menu = "present"]
                           ELSE [flags EXCEPT !.menu = "absent",
                                              !.rejected = rejection]
               /\ pc' = "click_menu"
               /\ UNCHANGED pending
    /\ UNCHANGED <<req, browser, closeCalls, playwright, ret>>
    /\ UNCHANGED <<apiVars, tableVars, counterVars>>

\* Lines 167-172: the success marker, and without it the rejection marker.
CheckMenu ==
    /\ pc = "check_menu"
    /\ \E ok \in BOOLEAN, menu \in BOOLEAN, rejection \in BOOLEAN :
          IF ~ok THEN RaiseInTry
          ELSE IF ~menu
          THEN /\ flags' = [flags EXCEPT !.menu = "absent", !.rejected = rejection]
               /\ pending' = Returned(<<>>)
               /\ pc' = "finally"
          ELSE /\ flags' = [flags EXCEPT !.menu = "present"]
               /\ pc' = "click_menu"
               /\ UNCHANGED pending
    /\ UNCHANGED <<req, browser, closeCalls, playwright, ret>>
    /\ UNCHANGED <<apiVars, tableVars, counterVars>>

\* page.click on the timetable menu entry: line 175.
ClickMenu ==
    /\ pc = "click_menu"
    /\ \E ok \in BOOLEAN :
          IF ok
          THEN /\ flags' = [flags EXCEPT !.opened = TRUE]
               /\ pc' = "wait_table"
               /\ UNCHANGED pending
          ELSE RaiseInTry
    /\ UNCHANGED <<req, browser, closeCalls, playwright, ret>>
    /\ UNCHANGED <<apiVars, tableVars, counterVars>>

\* The wait without a timeout, on a page that never shows the table.
WaitTable_NoTimeout ==
    /\ pc = "wait_table"
    /\ FALSE
    /\ UNCHANGED vars

\* page.wait_for_selector("#myTable", timeout=15000): a timeout is logged
\* and the scrape proceeds (lines 178-179).
WaitTable ==
    /\ pc = "wait_table"
    /\ \E ok \in BOOLEAN :
          flags' = [flags EXCEPT !.gridTimeout = ~ok,
                                 !.caught = flags.caught \/ ~ok]
    /\ pc' = "read_legend"
    /\ UNCHANGED <<req, browser, closeCalls, playwright, pending, ret>>
    /\ UNCHANGED <<apiVars, tableVars, counterVars>>

\* Lines 183-193: the legend rows the page holds become myTable_raw.  An
\* exception of inner_text is caught in safe_text (lines 113-115): the code
\* cell reads as the empty text and its row is left out.
ReadLegend ==
    /\ pc = "read_legend"
    /\ \E ok \in BOOLEAN, legend \in SampleLegends, safe \in BOOLEAN :
          IF ~ok THEN RaiseInTry /\ UNCHANGED myTable_raw
          ELSE /\ myTable_raw' = legend
               /\ flags' = [flags EXCEPT !.legendRead = TRUE,
                                          !.caught = flags.caught \/ ~safe]
               /\ pc' = "read_grid"
               /\ UNCHANGED pending
    /\ UNCHANGED <<req, browser, closeCalls, playwright, ret, mainTable_raw>>
    /\ UNCHANGED <<apiVars, counterVars>>

\* Lines 196-211: the day rows the page holds become mainTable_raw.  An
\* exception of inner_text is caught in safe_text (lines 113-115): the day
\* cell reads as the empty text and its row is left out.
ReadGrid ==
    /\ pc = "read_grid"
    /\ \E ok \in BOOLEAN, rows \in SampleGrids, safe \in BOOLEAN :
          IF ~ok THEN RaiseInTry /\ UNCHANGED mainTable_raw
          ELSE /\ mainTable_raw' = rows
               /\ flags' = [flags EXCEPT !.gridRead = TRUE,
                                          !.caught = flags.caught \/ ~safe]
               /\ pc' = "process"
               /\ UNCHANGED pending
    /\ UNCHANGED <<req, browser, closeCalls, playwright, ret, myTable_raw>>
    /\ UNCHANGED <<apiVars, counterVars>>

\* Lines 214-254: match, group, return result.
ProcessTables ==
    /\ pc = "process"
    /\ pending' = Returned(reconcile(myTable_raw, mainTable_raw))
    /\ pc' = "finally"
    /\ UNCHANGED <<req, browser, closeCalls, playwright, flags, ret>>
    /\ UNCHANGED <<apiVars, tableVars, counterVars>>

\* Lines 259-260, then the end of the with block: the value is handed over.
\* browser.close() can raise like every other browser call: the exception
\* replaces what the try block was handing over.
Finally ==
    /\ pc = "finally"
    /\ closeCalls' = closeCalls + 1
    /\ playwright' = "stopped"
    /\ pc' = "scrape_exit"
    /\ \E ok \in BOOLEAN :
          IF ok
          THEN /\ browser' = "closed"
               /\ ret' = pending
               /\ UNCHANGED flags
          ELSE /\ ret' = Raised
               /\ flags' = [flags EXCEPT !.raised = TRUE]
               /\ UNCHANGED browser
    /\ UNCHANGED <<req, pending>>
    /\ UNCHANGED <<apiVars, tableVars, counterVars>>

(***************************************************************************)
(* The request handlers.  Each request runs in a worker thread with its    *)
(* own database session (get_db, lines 73-78; autoflush off, line 58): a   *)
(* /save-line-token request is served while a /timetable request is under *)
(* way, and the lookup and the commit of a request are two steps, between  *)
(* which the other request can take its own.                               *)
(***************************************************************************)
scrapeVars == <<browser, closeCalls, playwright, flags, reloads, loginClicks,
                myTable_raw, mainTable_raw, pending, ret>>

\* The scrape state is that of no scrape in progress.
ScrapeReset ==
    /\ browser' = "none"
    /\ closeCalls' = 0
    /\ playwright' = "stopped"
    /\ flags' = FreshFlags
    /\ reloads' = 0
    /\ loginClicks' = 0
    /\ myTable_raw' = LegendOf({})
    /\ mainTable_raw' = <<>>
    /\ pending' = NoValue
    /\ ret' = NoValue

\* POST /timetable arrives: api_login calls extract_student_info, which
\* enters the sync_playwright() block (lines 274-278, 124).
ApiLoginStart(u, p) ==
    /\ pc = "idle"
    /\ clock < MaxClock
    /\ requests < MaxRequests
    /\ requests' = requests + 1
    /\ req' = [op |-> "timetable", username |-> u, password |-> p]
    /\ playwright' = "running"
    /\ pc' = "launch"
    /\ UNCHANGED <<browser, closeCalls, flags, reloads, loginClicks,
                   myTable_raw, mainTable_raw, pending, ret>>
    /\ UNCHANGED <<db, clock, lastOutcome, response>>
    /\ UNCHANGED <<envVars, scrapes, txn, digest>>

\* The row written whole: the token column is not carried over.
login_row_FreshRow(old, schedule, now) == Row(None, json_dumps(schedule), now)

\* The password of the request kept in the row.
login_row_KeepsPassword(old, schedule, now) ==
    Row(CHOOSE p \in Passwords : req.op = "timetable" => p = req.password,
        json_dumps(schedule), now)

\* The row api_login commits: lines 297-303.
login_row(old, schedule, now) ==
    Row(IF old.present THEN old.line_token ELSE None, json_dumps(schedule), now)

\* The session of a request that has looked its user up (and added a new
\* row when there is none): loaded is the row as the lookup read it, value
\* is what the request is about to store.
SessionLookup(op, u, value) ==
    [op |-> op, username |-> u, value |-> value, step |-> "commit",
     loaded |-> db[u]]

\* What db.commit() raises: the database may fail, and the INSERT of an
\* added row is refused by the primary key (line 65) when the row exists
\* by now.
CommitError(t, dbOk) ==
    IF ~dbOk THEN "OperationalError"
    ELSE IF ~t.loaded.present /\ db[t.username].present THEN "IntegrityError"
    ELSE "none"

\* The session of a request that was answered: get_db closes it (line 78).
NoSession == [step |-> "none"]

\* The row api_save_token commits: lines 317-322; a new row takes the
\* column defaults of lines 67-68.
token_row(old, token, now) ==
    IF old.present THEN [old EXCEPT !.line_token = token]
    ELSE Row(token, json_dumps(<<>>), now)

\* The user object of a session after its assignments: lines 302-303 for
\* /timetable, 322 for /save-line-token.
session_row(t, old, now) ==
    IF t.op = "timetable" THEN login_row(old, t.value, now)
    ELSE token_row(old, t.value, now)

\* The flush of db.commit(): an added object is inserted whole; of a loaded
\* object the columns whose value differs from the loaded one are written,
\* by the primary key, into the row as the table holds it now, and a column
\* with no net change is left out of the UPDATE.
Flush(loaded, object, current) ==
    IF ~loaded.present THEN object
    ELSE [current EXCEPT
             !.line_token =
                 IF object.line_token # loaded.line_token
                 THEN object.line_token ELSE @,
             !.schedule_json =
                 IF object.schedule_json # loaded.schedule_json
                 THEN object.schedule_json ELSE @,
             !.last_updated =
                 IF object.last_updated # loaded.last_updated
                 THEN object.last_updated ELSE @]

\* What the handler of a session answers: lines 305-311 and 324-327.
Answer(t, err) ==
    IF t.op = "timetable"
    THEN IF err = "none"
         THEN [to |-> t.username, op |-> "timetable",
               status |-> "success", data |-> t.value]
         ELSE [to |-> t.username, op |-> "timetable",
               status |-> "error500", detail |-> err]
    ELSE [to |-> t.username, op |-> "save-line-token",
          line_token |-> t.value,
          status |-> IF err = "none" THEN "success" ELSE "error500",
          detail |-> err]

\* Set the columns, commit, respond, close the session: lines 302-307 and
\* 322-325.  A commit that raises writes nothing and the request is
\* answered 500.  datetime.now() is read for last_updated of a /timetable
\* row (line 303) and for the column default of an added row (line 67); the
\* clock moves on past a reading that was stored.
SessionCommit(r, dbOk) ==
    LET t   == txn[r]
        err == CommitError(t, dbOk)
        old == db[t.username]
        new == Flush(t.loaded, session_row(t, t.loaded, clock), old)
    IN  /\ db' = IF err = "none" THEN [db EXCEPT ![t.username] = new]
                 ELSE db
        /\ response' = Answer(t, err)
        /\ clock' = IF /\ err = "none"
                       /\ t.op = "timetable" \/ ~t.loaded.present
                    THEN clock + 1
                    ELSE clock
        /\ txn' = [txn EXCEPT ![r] = NoSession]

\* Lines 280-300: the scrape returned; enrich, look the user up.
\* A query that raises makes the handler answer 500 (lines 309-311).
ApiLoginQuery ==
    /\ pc = "scrape_exit"
    /\ ret.kind = "return"
    /\ \E dbOk \in BOOLEAN :
          LET t == SessionLookup("timetable", req.username,
                                 enriched_schedule(ret.value, assets))
          IN  IF dbOk
              THEN /\ txn' = [txn EXCEPT !["login"] = t]
                   /\ pc' = "commit"
                   /\ UNCHANGED <<req, lastOutcome, response, scrapeVars>>
              ELSE /\ response' = Answer(t, "OperationalError")
                   /\ lastOutcome' = [cls |-> OutcomeClass(flags), ret |-> ret]
                   /\ req' = NoRequest
                   /\ pc' = "idle"
                   /\ ScrapeReset
                   /\ UNCHANGED txn
    /\ UNCHANGED <<db, clock>>
    /\ UNCHANGED <<envVars, scrapes, digest, requests>>

\* Lines 302-307: set the columns, commit, respond.  A commit that raises
\* makes the handler answer 500 (lines 309-311).
ApiLoginCommit ==
    /\ pc = "commit"
    /\ \E dbOk \in BOOLEAN : SessionCommit("login", dbOk)
    /\ lastOutcome' = [cls |-> OutcomeClass(flags), ret |-> ret]
    /\ req' = NoRequest
    /\ pc' = "idle"
    /\ ScrapeReset
    /\ UNCHANGED <<envVars, scrapes, digest, requests>>

\* Lines 309-311: the scrape raised; the handler answers 500.
ApiLoginError ==
    /\ pc = "scrape_exit"
    /\ ret.kind = "raise"
    /\ response' = [to |-> req.username, op |-> "timetable",
                    status |-> "error500", detail |-> "ScrapeError"]
    /\ lastOutcome' = [cls |-> OutcomeClass(flags), ret |-> ret]
    /\ req' = NoRequest
    /\ pc' = "idle"
    /\ ScrapeReset
    /\ UNCHANGED <<db, clock, sideVars>>

\* The worker threads that serve requests beside the one of pc.
Workers == {"w1", "w2"}

\* A request that arrives is handed to the first worker that is free.
FreeWorker(w) ==
    /\ txn[w] = NoSession
    /\ w = "w2" => txn["w1"] # NoSession

\* A request arrives at worker w and gets as far as its lookup; a query
\* that raises makes the handler answer 500.
Arrive(w, op, u, value) ==
    /\ FreeWorker(w)
    /\ clock < MaxClock
    /\ requests < MaxRequests
    /\ requests' = requests + 1
    /\ \E dbOk \in BOOLEAN :
          IF dbOk
          THEN /\ txn' = [txn EXCEPT ![w] = SessionLookup(op, u, value)]
               /\ UNCHANGED response
          ELSE /\ response' = Answer(SessionLookup(op, u, value),
                                     "OperationalError")
               /\ UNCHANGED txn
    /\ UNCHANGED <<db, clock, pc, req, lastOutcome>>
    /\ UNCHANGED <<scrapeVars, envVars, scrapes, digest>>

\* Worker w commits the session of its request and answers.
Leave(w, op) ==
    /\ txn[w].step = "commit"
    /\ txn[w].op = op
    /\ \E dbOk \in BOOLEAN : SessionCommit(w, dbOk)
    /\ UNCHANGED <<pc, req, lastOutcome>>
    /\ UNCHANGED <<scrapeVars, envVars, scrapes, digest, requests>>

\* POST /save-line-token arrives and looks its user up: lines 314-320.
ApiSaveTokenQuery(w, u, t) == Arrive(w, "save-line-token", u, t)

\* Lines 322-327: set the token, commit, respond.
ApiSaveTokenCommit(w) == Leave(w, "save-line-token")

\* A second POST /timetable beside the one of pc, in its own worker thread:
\* its call of extract_student_info shares nothing with the other requests
\* and has returned `courses`; enrich, look the user up (lines 280-300).
ApiLoginPeerQuery(w, u, courses) ==
    Arrive(w, "timetable", u, enriched_schedule(courses, assets))

\* Lines 302-307 (and 309-311) of the second /timetable request.
ApiLoginPeerCommit(w) == Leave(w, "timetable")

\* The call of extract_student_info of the second /timetable request
\* raised: the handler answers 500 (lines 309-311).
ApiLoginPeerError(w, u) ==
    /\ FreeWorker(w)
    /\ clock < MaxClock
    /\ requests < MaxRequests
    /\ requests' = requests + 1
    /\ response' = [to |-> u, op |-> "timetable",
                    status |-> "error500", detail |-> "ScrapeError"]
    /\ UNCHANGED <<db, clock, pc, req, lastOutcome, txn>>
    /\ UNCHANGED <<scrapeVars, envVars, scrapes, digest>>

(***************************************************************************)
(* Two calls of extract_student_info running side by side, each in its     *)
(* worker thread, from the point where its tables have been read: the      *)
(* locals of lines 214-254, one loop iteration per step.                   *)
(***************************************************************************)
Scrapers == {1, 2}

\* The locals of a call that is about to enter the loop of line 216.
ScrapeLocals(legend, rows) ==
    [myTable_raw |-> legend, mainTable_raw |-> rows, i |-> 1,
     seen |-> {}, finalTable |-> <<>>, result |-> NoValue]

handlerVars == <<db, clock, pc, req, lastOutcome, response>>

\* `seen` as one set of the module, shared by the calls.
MatchStep_SharedSeen(p) ==
    LET me      == scrapes[p]
        entries == FlatEntries(me.mainTable_raw)
        shared  == UNION { scrapes[q].seen : q \in Scrapers }
        st      == MatchLoop(me.myTable_raw, <<entries[me.i]>>, 1,
                             [seen |-> shared, finalTable |-> me.finalTable])
    IN  /\ me.result = NoValue
        /\ me.i <= Len(entries)
        /\ scrapes' = [scrapes EXCEPT ![p] =
                           [me EXCEPT !.i = me.i + 1,
                                      !.seen = me.seen \cup (st.seen \ shared),
                                      !.finalTable = st.finalTable]]
        /\ UNCHANGED <<handlerVars, scrapeVars, envVars, sessionVars, digest>>

\* One iteration of the loop of lines 216-237 in call p, on its own locals.
MatchStep(p) ==
    LET me      == scrapes[p]
        entries == FlatEntries(me.mainTable_raw)
        st      == MatchLoop(me.myTable_raw, <<entries[me.i]>>, 1,
                             [seen |-> me.seen, finalTable |-> me.finalTable])
    IN  /\ me.result = NoValue
        /\ me.i <= Len(entries)
        /\ scrapes' = [scrapes EXCEPT ![p] =
                           [me EXCEPT !.i = me.i + 1,
                                      !.seen = st.seen,
                                      !.finalTable = st.finalTable]]
        /\ UNCHANGED <<handlerVars, scrapeVars, envVars, sessionVars, digest>>

\* Lines 240-254 in call p: group finalTable and return.
GroupStep(p) ==
    LET me == scrapes[p]
    IN  /\ me.result = NoValue
        /\ me.i > Len(FlatEntries(me.mainTable_raw))
        /\ scrapes' = [scrapes EXCEPT ![p] =
                           [me EXCEPT !.result =
                               Returned(grouped_result(me.myTable_raw,
                                                       me.finalTable))]]
        /\ UNCHANGED <<handlerVars, scrapeVars, envVars, sessionVars, digest>>

(***************************************************************************)
(* GET /daily-schedule-all: api_n8n and parse_time.                        *)
(***************************************************************************)
\* The characters the class \d of a str pattern matches, the decimal
\* digits of Unicode, by the number int() reads from them: the set at
\* place v + 1 holds the digits of value v.
DecimalDigits ==
    <<
      { "0", "U+0660", "U+06F0", "U+07C0", "U+0966", "U+09E6", "U+0A66",
        "U+0AE6", "U+0B66", "U+0BE6", "U+0C66", "U+0CE6", "U+0D66", "U+0DE6",
        "U+0E50", "U+0ED0", "U+0F20", "U+1040", "U+1090", "U+17E0", "U+1810",
        "U+1946", "U+19D0", "U+1A80", "U+1A90", "U+1B50", "U+1BB0", "U+1C40",
        "U+1C50", "U+A620", "U+A8D0", "U+A900", "U+A9D0", "U+A9F0", "U+AA50",
        "U+ABF0", "U+FF10", "U+104A0", "U+10D30", "U+11066", "U+110F0",
        "U+11136", "U+111D0", "U+112F0", "U+11450", "U+114D0", "U+11650",
        "U+116C0", "U+11730", "U+118E0", "U+11950", "U+11C50", "U+11D50",
        "U+11DA0", "U+16A60", "U+16AC0", "U+16B50", "U+1D7CE", "U+1D7D8",
        "U+1D7E2", "U+1D7EC", "U+1D7F6", "U+1E140", "U+1E2F0", "U+1E950",
        "U+1FBF0" },
      { "1", "U+0661", "U+06F1", "U+07C1", "U+0967", "U+09E7", "U+0A67",
        "U+0AE7", "U+0B67", "U+0BE7", "U+0C67", "U+0CE7", "U+0D67", "U+0DE7",
        "U+0E51", "U+0ED1", "U+0F21", "U+1041", "U+1091", "U+17E1", "U+1811",
        "U+1947", "U+19D1", "U+1A81", "U+1A91", "U+1B51", "U+1BB1", "U+1C41",
        "U+1C51", "U+A621", "U+A8D1", "U+A901", "U+A9D1", "U+A9F1", "U+AA51",
        "U+ABF1", "U+FF11", "U+104A1", "U+10D31", "U+11067", "U+110F1",
        "U+11137", "U+111D1", "U+112F1", "U+11451", "U+114D1", "U+11651",
        "U+116C1", "U+11731", "U+118E1", "U+11951", "U+11C51", "U+11D51",
        "U+11DA1", "U+16A61", "U+16AC1", "U+16B51", "U+1D7CF", "U+1D7D9",
        "U+1D7E3", "U+1D7ED", "U+1D7F7", "U+1E141", "U+1E2F1", "U+1E951",
        "U+1FBF1" },
      { "2", "U+0662", "U+06F2", "U+07C2", "U+0968", "U+09E8", "U+0A68",
        "U+0AE8", "U+0B68", "U+0BE8", "U+0C68", "U+0CE8", "U+0D68", "U+0DE8",
        "U+0E52", "U+0ED2", "U+0F22", "U+1042", "U+1092", "U+17E2", "U+1812",
        "U+1948", "U+19D2", "U+1A82", "U+1A92", "U+1B52", "U+1BB2", "U+1C42",
        "U+1C52", "U+A622", "U+A8D2", "U+A902", "U+A9D2", "U+A9F2", "U+AA52",
        "U+ABF2", "U+FF12", "U+104A2", "U+10D32", "U+11068", "U+110F2",
        "U+11138", "U+111D2", "U+112F2", "U+11452", "U+114D2", "U+11652",
        "U+116C2", "U+11732", "U+118E2", "U+11952", "U+11C52", "U+11D52",
        "U+11DA2", "U+16A62", "U+16AC2", "U+16B52", "U+1D7D0", "U+1D7DA",
        "U+1D7E4", "U+1D7EE", "U+1D7F8", "U+1E142", "U+1E2F2", "U+1E952",
        "U+1FBF2" },
      { "3", "U+0663", "U+06F3", "U+07C3", "U+0969", "U+09E9", "U+0A69",
        "U+0AE9", "U+0B69", "U+0BE9", "U+0C69", "U+0CE9", "U+0D69", "U+0DE9",
        "U+0E53", "U+0ED3", "U+0F23", "U+1043", "U+1093", "U+17E3", "U+1813",
        "U+1949", "U+19D3", "U+1A83", "U+1A93", "U+1B53", "U+1BB3", "U+1C43",
        "U+1C53", "U+A623", "U+A8D3", "U+A903", "U+A9D3", "U+A9F3", "U+AA53",
        "U+ABF3", "U+FF13", "U+104A3", "U+10D33", "U+11069", "U+110F3",
        "U+11139", "U+111D3", "U+112F3", "U+11453", "U+114D3", "U+11653",
        "U+116C3", "U+11733", "U+118E3", "U+11953", "U+11C53", "U+11D53",
        "U+11DA3", "U+16A63", "U+16AC3", "U+16B53", "U+1D7D1", "U+1D7DB",
        "U+1D7E5", "U+1D7EF", "U+1D7F9", "U+1E143", "U+1E2F3", "U+1E953",
        "U+1FBF3" },
      { "4", "U+0664", "U+06F4", "U+07C4", "U+096A", "U+09EA", "U+0A6A",
        "U+0AEA", "U+0B6A", "U+0BEA", "U+0C6A", "U+0CEA", "U+0D6A", "U+0DEA",
        "U+0E54", "U+0ED4", "U+0F24", "U+1044", "U+1094", "U+17E4", "U+1814",
        "U+194A", "U+19D4", "U+1A84", "U+1A94", "U+1B54", "U+1BB4", "U+1C44",
        "U+1C54", "U+A624", "U+A8D4", "U+A904", "U+A9D4", "U+A9F4", "U+AA54",
        "U+ABF4", "U+FF14", "U+104A4", "U+10D34", "U+1106A", "U+110F4",
        "U+1113A", "U+111D4", "U+112F4", "U+11454", "U+114D4", "U+11654",
        "U+116C4", "U+11734", "U+118E4", "U+11954", "U+11C54", "U+11D54",
        "U+11DA4", "U+16A64", "U+16AC4", "U+16B54", "U+1D7D2", "U+1D7DC",
        "U+1D7E6", "U+1D7F0", "U+1D7FA", "U+1E144", "U+1E2F4", "U+1E954",
        "U+1FBF4" },
      { "5", "U+0665", "U+06F5", "U+07C5", "U+096B", "U+09EB", "U+0A6B",
        "U+0AEB", "U+0B6B", "U+0BEB", "U+0C6B", "U+0CEB", "U+0D6B", "U+0DEB",
        "U+0E55", "U+0ED5", "U+0F25", "U+1045", "U+1095", "U+17E5", "U+1815",
        "U+194B", "U+19D5", "U+1A85", "U+1A95", "U+1B55", "U+1BB5", "U+1C45",
        "U+1C55", "U+A625", "U+A8D5", "U+A905", "U+A9D5", "U+A9F5", "U+AA55",
        "U+ABF5", "U+FF15", "U+104A5", "U+10D35", "U+1106B", "U+110F5",
        "U+1113B", "U+111D5", "U+112F5", "U+11455", "U+114D5", "U+11655",
        "U+116C5", "U+11735", "U+118E5", "U+11955", "U+11C55", "U+11D55",
        "U+11DA5", "U+16A65", "U+16AC5", "U+16B55", "U+1D7D3", "U+1D7DD",
        "U+1D7E7", "U+1D7F1", "U+1D7FB", "U+1E145", "U+1E2F5", "U+1E955",
        "U+1FBF5" },
      { "6", "U+0666", "U+06F6", "U+07C6", "U+096C", "U+09EC", "U+0A6C",
        "U+0AEC", "U+0B6C", "U+0BEC", "U+0C6C", "U+0CEC", "U+0D6C", "U+0DEC",
        "U+0E56", "U+0ED6", "U+0F26", "U+1046", "U+1096", "U+17E6", "U+1816",
        "U+194C", "U+19D6", "U+1A86", "U+1A96", "U+1B56", "U+1BB6", "U+1C46",
        "U+1C56", "U+A626", "U+A8D6", "U+A906", "U+A9D6", "U+A9F6", "U+AA56",
        "U+ABF6", "U+FF16", "U+104A6", "U+10D36", "U+1106C", "U+110F6",
        "U+1113C", "U+111D6", "U+112F6", "U+11456", "U+114D6", "U+11656",
        "U+116C6", "U+11736", "U+118E6", "U+11956", "U+11C56", "U+11D56",
        "U+11DA6", "U+16A66", "U+16AC6", "U+16B56", "U+1D7D4", "U+1D7DE",
        "U+1D7E8", "U+1D7F2", "U+1D7FC", "U+1E146", "U+1E2F6", "U+1E956",
        "U+1FBF6" },
      { "7", "U+0667", "U+06F7", "U+07C7", "U+096D", "U+09ED", "U+0A6D",
        "U+0AED", "U+0B6D", "U+0BED", "U+0C6D", "U+0CED", "U+0D6D", "U+0DED",
        "U+0E57", "U+0ED7", "U+0F27", "U+1047", "U+1097", "U+17E7", "U+1817",
        "U+194D", "U+19D7", "U+1A87", "U+1A97", "U+1B57", "U+1BB7", "U+1C47",
        "U+1C57", "U+A627", "U+A8D7", "U+A907", "U+A9D7", "U+A9F7", "U+AA57",
        "U+ABF7", "U+FF17", "U+104A7", "U+10D37", "U+1106D", "U+110F7",
        "U+1113D", "U+111D7", "U+112F7", "U+11457", "U+114D7", "U+11657",
        "U+116C7", "U+11737", "U+118E7", "U+11957", "U+11C57", "U+11D57",
        "U+11DA7", "U+16A67", "U+16AC7", "U+16B57", "U+1D7D5", "U+1D7DF",
        "U+1D7E9", "U+1D7F3", "U+1D7FD", "U+1E147", "U+1E2F7", "U+1E957",
        "U+1FBF7" },
      { "8", "U+0668", "U+06F8", "U+07C8", "U+096E", "U+09EE", "U+0A6E",
        "U+0AEE", "U+0B6E", "U+0BEE", "U+0C6E", "U+0CEE", "U+0D6E", "U+0DEE",
        "U+0E58", "U+0ED8", "U+0F28", "U+1048", "U+1098", "U+17E8", "U+1818",
        "U+194E", "U+19D8", "U+1A88", "U+1A98", "U+1B58", "U+1BB8", "U+1C48",
        "U+1C58", "U+A628", "U+A8D8", "U+A908", "U+A9D8", "U+A9F8", "U+AA58",
        "U+ABF8", "U+FF18", "U+104A8", "U+10D38", "U+1106E", "U+110F8",
        "U+1113E", "U+111D8", "U+112F8", "U+11458", "U+114D8", "U+11658",
        "U+116C8", "U+11738", "U+118E8", "U+11958", "U+11C58", "U+11D58",
        "U+11DA8", "U+16A68", "U+16AC8", "U+16B58", "U+1D7D6", "U+1D7E0",
        "U+1D7EA", "U+1D7F4", "U+1D7FE", "U+1E148", "U+1E2F8", "U+1E958",
        "U+1FBF8" },
      { "9", "U+0669", "U+06F9", "U+07C9", "U+096F", "U+09EF", "U+0A6F",
        "U+0AEF", "U+0B6F", "U+0BEF", "U+0C6F", "U+0CEF", "U+0D6F", "U+0DEF",
        "U+0E59", "U+0ED9", "U+0F29", "U+1049", "U+1099", "U+17E9", "U+1819",
        "U+194F", "U+19D9", "U+1A89", "U+1A99", "U+1B59", "U+1BB9", "U+1C49",
        "U+1C59", "U+A629", "U+A8D9", "U+A909", "U+A9D9", "U+A9F9", "U+AA59",
        "U+ABF9", "U+FF19", "U+104A9", "U+10D39", "U+1106F", "U+110F9",
        "U+1113F", "U+111D9", "U+112F9", "U+11459", "U+114D9", "U+11659",
        "U+116C9", "U+11739", "U+118E9", "U+11959", "U+11C59", "U+11D59",
        "U+11DA9", "U+16A69", "U+16AC9", "U+16B59", "U+1D7D7", "U+1D7E1",
        "U+1D7EB", "U+1D7F5", "U+1D7FF", "U+1E149", "U+1E2F9", "U+1E959",
        "U+1FBF9" } >>

IsDigit(c) == \E d \in DOMAIN DecimalDigits : c \in DecimalDigits[d]

DigitValue(c) ==
    (CHOOSE d \in DOMAIN DecimalDigits : c \in DecimalDigits[d]) - 1

\* The characters of a range written out in a pattern, [0-5] and the like.
AsciiDigits(low, high) ==
    { c \in {"0", "1", "2", "3", "4", "5", "6", "7", "8", "9"} :
          DigitValue(c) >= low /\ DigitValue(c) <= high }

\* %H is 2[0-3]|[0-1]\d|\d: the number of an hour text, -1 for a text
\* the pattern does not match as a whole.
HourOf(s) ==
    IF Len(s) = 2 /\ s[1] = "2" /\ s[2] \in AsciiDigits(0, 3)
    THEN 20 + DigitValue(s[2])
    ELSE IF Len(s) = 2 /\ s[1] \in AsciiDigits(0, 1) /\ IsDigit(s[2])
    THEN 10 * DigitValue(s[1]) + DigitValue(s[2])
    ELSE IF Len(s) = 1 /\ IsDigit(s[1]) THEN DigitValue(s[1])
    ELSE 0 - 1

\* %M is [0-5]\d|\d.
MinuteOf(s) ==
    IF Len(s) = 2 /\ s[1] \in AsciiDigits(0, 5) /\ IsDigit(s[2])
    THEN 10 * DigitValue(s[1]) + DigitValue(s[2])
    ELSE IF Len(s) = 1 /\ IsDigit(s[1]) THEN DigitValue(s[1])
    ELSE 0 - 1

\* The text before the first ':' and the text after it.
RECURSIVE BeforeColon(_)
BeforeColon(s) ==
    IF s = <<>> \/ Head(s) = ":" THEN <<>>
    ELSE <<Head(s)>> \o BeforeColon(Tail(s))

AfterColon(s) == SubSeq(s, Len(BeforeColon(s)) + 2, Len(s))

\* datetime.max as a sort key: later than every time of day, in minutes.
DatetimeMax == 1440

\* datetime.strptime(time_str, "%H:%M") matches the text against the
\* pattern of hour ':' minute and raises when the match fails or leaves text
\* over; the key is the minutes of the day.  When it raises, parse_time
\* returns datetime.max (lines 117-119).
parse_time(time_str) ==
    LET h == HourOf(BeforeColon(time_str))
        m == MinuteOf(AfterColon(time_str))
    IN  IF /\ Len(BeforeColon(time_str)) < Len(time_str)
           /\ h >= 0
           /\ m >= 0
        THEN 60 * h + m
        ELSE DatetimeMax

\* The day names of line 335, and the name used for any other answer of
\* strftime("%A").
thai_days ==
    [Monday |-> <<"chan">>, Tuesday |-> <<"angkhan">>, Wednesday |-> <<"phut">>,
     Thursday |-> <<"pharuehatsabodi">>, Friday |-> <<"suk">>,
     Saturday |-> <<"sao">>, Sunday |-> <<"athit">>]

thai_days_get(name) ==
    IF name \in DOMAIN thai_days THEN thai_days[name] ELSE <<"chan">>

\* The names strftime("%A") gives: the seven of the C locale, and one of
\* another locale.
WeekdayNames == DOMAIN thai_days \cup {"Montag"}

\* Lines 348-355 for one subject: its sessions of the target day.
RECURSIVE ClassesOfSubject(_, _, _)
ClassesOfSubject(subj, k, target_day) ==
    IF k > Len(subj.schedules) THEN <<>>
    ELSE (IF subj.schedules[k].day = target_day
          THEN << [code |-> subj.code, name |-> subj.name_en,
                   time |-> subj.schedules[k].time,
                   room |-> subj.schedules[k].room,
                   building |-> subj.schedules[k].building,
                   map_image |-> subj.schedules[k].map_image] >>
          ELSE <<>>)
         \o ClassesOfSubject(subj, k + 1, target_day)

RECURSIVE ClassesOfDay(_, _)
ClassesOfDay(full_schedule, target_day) ==
    IF full_schedule = <<>> THEN <<>>
    ELSE ClassesOfSubject(Head(full_schedule), 1, target_day)
         \o ClassesOfDay(Tail(full_schedule), target_day)

\* x placed behind the last element whose key is not greater: the place a
\* stable sort gives it.
RECURSIVE InsertByTime(_, _)
InsertByTime(sorted, x) ==
    IF sorted = <<>> THEN <<x>>
    ELSE IF parse_time(Head(sorted).time) <= parse_time(x.time)
    THEN <<Head(sorted)>> \o InsertByTime(Tail(sorted), x)
    ELSE <<x>> \o sorted

\* classes.sort(key=lambda x: parse_time(x['time'])): list.sort is stable.
RECURSIVE SortByTime(_)
SortByTime(classes) ==
    IF classes = <<>> THEN <<>>
    ELSE InsertByTime(SortByTime(SubSeq(classes, 1, Len(classes) - 1)),
                      classes[Len(classes)])

\* Lines 341-359 for the users in the order the query gave them.
RECURSIVE DigestOutput(_, _)
DigestOutput(users, target_day) ==
    IF users = <<>> THEN <<>>
    ELSE LET user    == Head(users)
             classes == ClassesOfDay(json_loads(db[user].schedule_json),
                                     target_day)
         IN  (IF classes # <<>>
              THEN << [username |-> user, line_user_id |-> db[user].line_token,
                       day |-> target_day, classes |-> SortByTime(classes)] >>
              ELSE <<>>)
             \o DigestOutput(Tail(users), target_day)

\* The orders in which a query without ORDER BY can give the rows of us.
OrdersOf(us) ==
    { o \in [1..Cardinality(us) -> us] : \A u \in us : \E k \in DOMAIN o : o[k] = u }

\* GET /daily-schedule-all: lines 330-361.
\* The handler runs in a worker thread beside the other requests; its one
\* query reads the table as it is.  A query that raises is not caught: the
\* request is answered 500.
ApiDaily ==
    /\ requests < MaxRequests
    /\ requests' = requests + 1
    /\ \/ \E weekday \in WeekdayNames :
          \E users \in OrdersOf({ u \in Users :
                                    db[u].present /\ db[u].line_token # None }) :
             LET output == DigestOutput(users, thai_days_get(weekday))
             IN  digest' = [status |-> "ok", count |-> Len(output),
                            data |-> output]
       \/ digest' = [status |-> "error500"]
    /\ UNCHANGED <<db, clock, pc, req, lastOutcome, response>>
    /\ UNCHANGED <<scrapeVars, envVars, scrapes, txn>>

(***************************************************************************)
(* Specifications.                                                         *)
(***************************************************************************)
NoResponse == [to |-> None, op |-> "none", status |-> "none"]

NoOutcome == [cls |-> "none"]

NoScrapes == <<>>

\* The threads that serve requests: the one of pc and the workers.
Requesters == {"login"} \cup Workers

NoTxn == [r \in Requesters |-> NoSession]

NoDigest == [status |-> "none"]

\* No scrape runs beside the one of pc, no session is open, no digest sent.
InitSide ==
    /\ scrapes = NoScrapes
    /\ txn = NoTxn
    /\ digest = NoDigest

InitQuiet ==
    /\ db = [u \in Users |-> NoRow]
    /\ clock = 0
    /\ pc = "idle"
    /\ req = NoRequest
    /\ browser = "none"
    /\ closeCalls = 0
    /\ playwright = "stopped"
    /\ flags = FreshFlags
    /\ reloads = 0
    /\ loginClicks = 0
    /\ myTable_raw = LegendOf({})
    /\ mainTable_raw = <<>>
    /\ pending = NoValue
    /\ ret = NoValue
    /\ lastOutcome = NoOutcome
    /\ response = NoResponse

InitIdle == InitQuiet /\ InitSide /\ requests = 0

NoOthers == [files |-> {}, dirs |-> {}]

\* The program in /app, one map file in static/maps, nothing else on the
\* disk, the environment variable not set.
InitEnv ==
    /\ assets = { RoomS1 \o <<".png">> }
    /\ BASE_DIR = << <<"a", "p", "p">> >>
    /\ elsewhere = NoOthers
    /\ RENDER_EXTERNAL_URL = Unset

Init == InitIdle /\ InitEnv

ScrapeStep ==
    \/ Launch \/ NewContext \/ NewPage \/ Goto \/ WaitLoad \/ CheckForm
    \/ Reload \/ ClickLogin \/ WaitForm \/ Submit \/ CheckMenu \/ ClickMenu
    \/ WaitTable \/ ReadLegend \/ ReadGrid \/ ProcessTables \/ Finally

\* The course lists a scrape beside the one of pc returns.
PeerCourses == { reconcile(legend, rows) :
                     legend \in SampleLegends, rows \in SampleGrids }

\* The requests are served side by side, each in its thread: the steps of
\* the navigator are followed for one /timetable request at a time (pc),
\* the other requests are followed through their database steps.
Next ==
    \/ \E u \in Users, p \in Passwords : ApiLoginStart(u, p)
    \/ ScrapeStep
    \/ ApiLoginQuery
    \/ ApiLoginCommit
    \/ ApiLoginError
    \/ \E w \in Workers, u \in Users, t \in Tokens :
          ApiSaveTokenQuery(w, u, t)
    \/ \E w \in Workers : ApiSaveTokenCommit(w)
    \/ \E w \in Workers, u \in Users, courses \in PeerCourses :
          ApiLoginPeerQuery(w, u, courses)
    \/ \E w \in Workers : ApiLoginPeerCommit(w)
    \/ \E w \in Workers, u \in Users : ApiLoginPeerError(w, u)
    \/ ApiDaily

Spec == Init /\ [][Next]_vars

\* The /timetable requests of one user, served one after the other.  The
\* handler runs as straight-line code in one thread and every call it makes
\* returns or raises within its timeout, so a scrape that can take a step
\* takes it: weak fairness of the navigator's steps.
NextTimetable ==
    \/ \E p \in Passwords : ApiLoginStart("u1", p)
    \/ ScrapeStep
    \/ ApiLoginQuery
    \/ ApiLoginCommit
    \/ ApiLoginError

FairSpec == Init /\ [][NextTimetable]_vars /\ WF_vars(ScrapeStep)

\* Two scrapes side by side, for every pair of pages of the samples.
InitTwoScrapes ==
    /\ InitQuiet
    /\ InitEnv
    /\ txn = NoTxn
    /\ requests = 0
    /\ digest = NoDigest
    /\ scrapes \in [Scrapers ->
           { ScrapeLocals(legend, rows) :
                 legend \in SampleLegends, rows \in SampleGrids }]

NextTwoScrapes == \E p \in Scrapers : MatchStep(p) \/ GroupStep(p)

SpecTwoScrapes == InitTwoScrapes /\ [][NextTwoScrapes]_vars

\* The schedules a scrape of the sample pages is enriched to.
SampleSchedules ==
    { enriched_schedule(reconcile(legend, rows), { RoomS1 \o <<".png">> }) :
          legend \in SampleLegends, rows \in SampleGrids }

\* The rows the two handlers can have left for a user.
StoredRows ==
    { NoRow }
    \cup { Row(tok, json_dumps(sched), 0) :
               tok \in Tokens \cup {None}, sched \in SampleSchedules }

\* The pages of a scrape that found the marker and read both tables.
ReadFlags ==
    [FreshFlags EXCEPT !.form = "present", !.submitted = TRUE,
                       !.menu = "present", !.opened = TRUE,
                       !.legendRead = TRUE, !.gridRead = TRUE]

\* One /timetable request whose scrape has returned and one
\* /save-line-token request for the same user that has not arrived yet,
\* for every row the user can have and for none.
InitRace ==
    /\ InitEnv
    /\ \E row \in StoredRows :
           /\ db = [u \in Users |-> IF u = "u1" THEN row ELSE NoRow]
           /\ clock = IF row.present THEN 1 ELSE 0
    /\ pc = "scrape_exit"
    /\ req = [op |-> "timetable", username |-> "u1", password |-> "pw1"]
    /\ browser = "closed"
    /\ closeCalls = 1
    /\ playwright = "stopped"
    /\ flags = ReadFlags
    /\ reloads = 0
    /\ loginClicks = 0
    /\ myTable_raw \in SampleLegends
    /\ mainTable_raw \in SampleGrids
    /\ pending = Returned(reconcile(myTable_raw, mainTable_raw))
    /\ ret = pending
    /\ lastOutcome = NoOutcome
    /\ response = NoResponse
    /\ InitSide
    /\ requests = 1

NextRace ==
    \/ ApiLoginQuery
    \/ ApiLoginCommit
    \/ \E w \in Workers, t \in Tokens : ApiSaveTokenQuery(w, "u1", t)
    \/ \E w \in Workers : ApiSaveTokenCommit(w)
    \/ \E w \in Workers, courses \in PeerCourses :
          ApiLoginPeerQuery(w, "u1", courses)
    \/ \E w \in Workers : ApiLoginPeerCommit(w)
    \/ \E w \in Workers : ApiLoginPeerError(w, "u1")

SpecRace == InitRace /\ [][NextRace]_vars

\* Cells of one Monday: a late range, an early range, no time token, and a
\* time that is no range.
TimeLate  == <<"(", "1", "3", ":", "0", "0", "-", "1", "5", ":", "0", "0", ")">>
TimeEarly == <<"(", "0", "9", ":", "0", "0", "-", "1", "2", ":", "0", "0", ")">>
TimePlain == <<"(", "0", "8", ":", "3", "0", ")">>

DailyCells ==
    { <<CodeA, G1, RoomS1, TimeLate>>, <<CodeB, G1, RoomZ9, TimeEarly>>,
      <<CodeA, G1, RoomS1>>, <<CodeB, G1, RoomZ9, TimePlain>> }

\* The schedules /timetable stores for pages with two Monday cells and
\* one Tuesday cell.
DailySchedules ==
    { enriched_schedule(
          reconcile(LegendOf({CodeA, CodeB}),
                    << [day |-> thai_days.Monday, columns |-> <<c1, c2>>],
                       [day |-> thai_days.Tuesday,
                        columns |-> << <<CodeB, G1, RoomZ9, TimeEarly>> >>] >>),
          { RoomS1 \o <<".png">> })
      : c1 \in DailyCells, c2 \in DailyCells }

\* The digest job runs over the rows earlier requests left: one user with
\* a token and a schedule, the other with no row, no token, or both.
InitDaily ==
    /\ InitEnv
    /\ \E s1 \in DailySchedules, s2 \in DailySchedules :
       \E row2 \in { NoRow, Row(None, json_dumps(s2), 0),
                      Row("t2", json_dumps(s2), 0) } :
          db = [u \in Users |->
                   IF u = "u1" THEN Row("t1", json_dumps(s1), 0) ELSE row2]
    /\ clock = 1
    /\ pc = "idle"
    /\ req = NoRequest
    /\ browser = "none"
    /\ closeCalls = 0
    /\ playwright = "stopped"
    /\ flags = FreshFlags
    /\ reloads = 0
    /\ loginClicks = 0
    /\ myTable_raw = LegendOf({})
    /\ mainTable_raw = <<>>
    /\ pending = NoValue
    /\ ret = NoValue
    /\ lastOutcome = NoOutcome
    /\ response = NoResponse
    /\ InitSide
    /\ requests = 0

SpecDaily == InitDaily /\ [][ApiDaily]_vars

\* The tail of one /timetable request from the point where both tables have
\* been read, for every legend map and every grid within the bounds.
InitAfterRead ==
    /\ db = [u \in Users |-> NoRow]
    /\ clock = 0
    /\ pc = "process"
    /\ req = [op |-> "timetable", username |-> "u1", password |-> "pw1"]
    /\ browser = "open"
    /\ closeCalls = 0
    /\ playwright = "running"
    /\ flags = [FreshFlags EXCEPT !.form = "present", !.submitted = TRUE,
                                  !.menu = "present", !.opened = TRUE,
                                  !.legendRead = TRUE, !.gridRead = TRUE]
    /\ reloads = 0
    /\ loginClicks = 0
    /\ myTable_raw \in LegendPool
    /\ pending = NoValue
    /\ ret = NoValue
    /\ lastOutcome = NoOutcome
    /\ response = NoResponse
    /\ InitSide
    /\ requests = 1
    /\ InitEnv

InitTables == InitAfterRead /\ mainTable_raw \in GridPool

NextTables ==
    ProcessTables \/ Finally \/ ApiLoginQuery \/ ApiLoginCommit \/ ApiLoginError

SpecTables == InitTables /\ [][NextTables]_vars

\* The same tail for the grids of one-cell rows.
InitLongGrid == InitAfterRead /\ mainTable_raw \in LongGridPool

SpecLongGrid == InitLongGrid /\ [][NextTables]_vars

\* The end of one /timetable request whose scrape returned one course with
\* one session, for every room of the pool and every listing of static/maps.
InitRoom ==
    /\ db = [u \in Users |-> NoRow]
    /\ clock = 0
    /\ pc = "scrape_exit"
    /\ req = [op |-> "timetable", username |-> "u1", password |-> "pw1"]
    /\ browser = "closed"
    /\ closeCalls = 1
    /\ playwright = "stopped"
    /\ flags = [FreshFlags EXCEPT !.form = "present", !.submitted = TRUE,
                                  !.menu = "present", !.opened = TRUE,
                                  !.legendRead = TRUE, !.gridRead = TRUE]
    /\ reloads = 0
    /\ loginClicks = 0
    /\ myTable_raw = LegendOf({CodeA})
    /\ BASE_DIR \in BaseSamples
    /\ \E room \in RoomPool :
          /\ mainTable_raw =
                 << [day |-> DayM, columns |-> << <<CodeA, G1, room, Time9>> >>] >>
          /\ assets \in AssetsFor(room)
          /\ elsewhere \in ElsewhereFor(BaseName(room))
    /\ RENDER_EXTERNAL_URL \in EnvSamples
    /\ pending = Returned(reconcile(myTable_raw, mainTable_raw))
    /\ ret = pending
    /\ lastOutcome = NoOutcome
    /\ response = NoResponse
    /\ InitSide
    /\ requests = 1

SpecRoom == InitRoom /\ [][ApiLoginQuery \/ ApiLoginCommit]_vars

(***************************************************************************)
(* Claims about the navigator and the /timetable handler.                  *)
(***************************************************************************)

\* C1: whichever way a run of extract_student_info that launched the browser
\* ends, the browser has been closed exactly once when the call returns or
\* raises.
C1_BrowserClosedOnce ==
    (pc = "scrape_exit" /\ browser # "none")
        => (browser = "closed" /\ closeCalls = 1)

\* C2: what the scrape hands to its caller is distinct for each class of
\* outcome: two scrapes that ended in different classes handed over different
\* values.
C2_OutcomesDistinct ==
    (/\ pc = "scrape_exit"
     /\ lastOutcome # NoOutcome
     /\ lastOutcome.cls # OutcomeClass(flags))
        => lastOutcome.ret # ret

\* C3: a /timetable request whose login met the wrong-credentials marker
\* writes nothing: no step of it changes the users table.
C3_WrongPasswordWritesNothing ==
    [][(/\ pc \in {"scrape_exit", "commit"}
        /\ pc' # pc
        /\ OutcomeClass(flags) = "WrongPassword")
           => db' = db]_vars

\* C4: once the wait for the timetable grid has timed out, neither table is
\* read and the scrape does not return a course list.
C4_GridTimeoutIsFatal ==
    flags.gridTimeout
        => /\ ~flags.legendRead
           /\ ~flags.gridRead
           /\ pc = "scrape_exit" => ret.kind # "return"

(***************************************************************************)
(* Claims about reconciliation, stated on the tables a scrape read and the *)
(* course list it returned.                                                *)
(***************************************************************************)
ScrapeReturned == pc = "scrape_exit" /\ ret.kind = "return"

GridEntries == FlatEntries(mainTable_raw)

EntryCode(e) == e.col[1]

\* Token 3 of a cell without its parentheses, "-" for a list of fewer than 4.
EntryTime(e) ==
    IF Len(e.col) >= 4
    THEN SelectSeq(e.col[4], LAMBDA c : c # "(" /\ c # ")")
    ELSE <<"-">>

\* Token 2 of a cell, "-" for a list of fewer than 3.
EntryRoom(e) == IF Len(e.col) >= 3 THEN e.col[3] ELSE <<"-">>

EntryKey(e) == EntryCode(e) \o <<"|">> \o e.day \o <<"|">> \o EntryTime(e)

\* The number of sessions of the courses `code` of `courses` at (day, time).
SessionCount(courses, code, day, time) ==
    Cardinality(UNION { { <<k, j>> : j \in { n \in DOMAIN courses[k].schedules :
                                               /\ courses[k].code = code
                                               /\ courses[k].schedules[n].day = day
                                               /\ courses[k].schedules[n].time = time } } :
                        k \in DOMAIN courses })

EntryCount(e) == SessionCount(ret.value, EntryCode(e), e.day, EntryTime(e))

\* C5: the result holds no two sessions of one course with the same (day,
\* time), and the grid entries that share (code, day, time) contribute
\* exactly one session, however often they occur.  The entries of a code
\* the legend lacks belong to no course of the result and are not counted.
C5_ExactlyOneSession ==
    ScrapeReturned =>
        \A i \in DOMAIN GridEntries :
            LET e == GridEntries[i]
            IN  /\ EntryCount(e) <= 1
                /\ EntryCode(e) \in DOMAIN myTable_raw => EntryCount(e) = 1

\* C6: every course of the result has a code that is a key of the legend map;
\* a grid entry whose code is absent from the legend yields no course and no
\* session, and the processing of the tables that met it raises nothing.
C6_InnerJoin ==
    /\ ScrapeReturned =>
          /\ \A k \in DOMAIN ret.value : ret.value[k].code \in DOMAIN myTable_raw
          /\ \A i \in DOMAIN GridEntries :
                EntryCode(GridEntries[i]) \notin DOMAIN myTable_raw
                    => /\ EntryCount(GridEntries[i]) = 0
                       /\ \A k \in DOMAIN ret.value :
                             ret.value[k].code # EntryCode(GridEntries[i])
    /\ (pc \in {"finally", "scrape_exit", "commit"} /\ flags.gridRead)
           => pending.kind = "return"

\* A grid with a code outside the legend next to one inside it was processed.
C6_Witness ==
    /\ ScrapeReturned
    /\ ret.value # <<>>
    /\ \E i \in DOMAIN GridEntries :
          EntryCode(GridEntries[i]) \notin DOMAIN myTable_raw

\* The index of the first grid entry with the given code.
FirstSeenAt(code) ==
    CHOOSE i \in DOMAIN GridEntries :
        /\ EntryCode(GridEntries[i]) = code
        /\ \A j \in 1..(i - 1) : EntryCode(GridEntries[j]) # code

\* C7: the courses of the result are in the order in which their codes are
\* first met in the scan of the grid, and no code has two courses.
C7_FirstEncounterOrder ==
    ScrapeReturned =>
        \A k1, k2 \in DOMAIN ret.value :
            k1 < k2 =>
                /\ ret.value[k1].code # ret.value[k2].code
                /\ FirstSeenAt(ret.value[k1].code) < FirstSeenAt(ret.value[k2].code)

(***************************************************************************)
(* Claims about the users table.                                           *)
(***************************************************************************)
TokenOf(row) == IF row.present THEN row.line_token ELSE None

\* The step is the commit of the request that thread r serves.
CommitsOf(r) == txn[r].step = "commit" /\ txn'[r].step # "commit"

\* C8: no step of a /timetable request, whatever its scrape outcome, changes
\* or clears a stored notification token; a token changes only by a
\* /save-line-token request that succeeds, and then to the submitted value.
C8_TokenKept ==
    [][\A u \in Users :
          TokenOf(db'[u]) # TokenOf(db[u]) =>
              \E r \in Requesters :
                  /\ CommitsOf(r)
                  /\ txn[r].op = "save-line-token"
                  /\ txn[r].username = u
                  /\ TokenOf(db'[u]) = txn[r].value
                  /\ response'.op = "save-line-token"
                  /\ response'.status = "success"]_vars

\* A /timetable request has just succeeded for a user whose scrape ended in a
\* login failure, and the user still holds a saved token.
C8_Witness ==
    /\ pc = "idle"
    /\ response.op = "timetable"
    /\ response.status = "success"
    /\ lastOutcome.cls \in {"WrongPassword", "LoginFailedGeneric"}
    /\ TokenOf(db[response.to]) \in Tokens

\* The stored courses are those of `data`, each session with the building and
\* the map image of its room.
StoredIsEnriched(stored, data) ==
    /\ Len(stored) = Len(data)
    /\ \A k \in DOMAIN data :
          /\ stored[k].code = data[k].code
          /\ stored[k].name_en = data[k].name_en
          /\ stored[k].name_th = data[k].name_th
          /\ Len(stored[k].schedules) = Len(data[k].schedules)
          /\ \A j \in DOMAIN data[k].schedules :
                LET x == stored[k].schedules[j]
                    y == data[k].schedules[j]
                IN  /\ x.day = y.day /\ x.time = y.time /\ x.room = y.room
                    /\ x.building = building_name(y.room)
                    /\ x.map_image = full_image_url(y.room, assets)

\* C9: the step that completes a /timetable request with success leaves the
\* user's stored schedule equal to the enriched course list of that scrape,
\* whatever was stored before.
C9_ScheduleReplaced ==
    [][\A r \in Requesters :
          (/\ CommitsOf(r)
           /\ txn[r].op = "timetable"
           /\ response'.status = "success")
              => LET u == txn[r].username
                 IN  /\ db'[u].present
                     /\ json_loads(db'[u].schedule_json) = response'.data
                     /\ r = "login" =>
                            StoredIsEnriched(json_loads(db'[u].schedule_json),
                                             ret.value)]_vars

(***************************************************************************)
(* The positional contract of the grid cells.                              *)
(***************************************************************************)
\* The entry at i meets no earlier entry with its key text.
KeyUnseen(i) ==
    \A j \in 1..(i - 1) : EntryKey(GridEntries[j]) # EntryKey(GridEntries[i])

Produces(i) == EntryCode(GridEntries[i]) \in DOMAIN myTable_raw /\ KeyUnseen(i)

AllSessions(data) ==
    UNION { { [code |-> data[k].code, day |-> data[k].schedules[j].day,
               time |-> data[k].schedules[j].time,
               room |-> data[k].schedules[j].room,
               building |-> data[k].schedules[j].building] :
              j \in DOMAIN data[k].schedules } : k \in DOMAIN data }

RECURSIVE TotalSessions(_)
TotalSessions(data) ==
    IF data = <<>> THEN 0
    ELSE Len(Head(data).schedules) + TotalSessions(Tail(data))

ExpectedSession(e) ==
    [code |-> EntryCode(e), day |-> e.day, time |-> EntryTime(e),
     room |-> EntryRoom(e), building |-> get_room_details(EntryRoom(e), assets)[1]]

\* Every cell's token 1 replaced by one fixed text.
BlankToken1(rows) ==
    [r \in DOMAIN rows |->
        [rows[r] EXCEPT !.columns =
            [c \in DOMAIN rows[r].columns |->
                IF Len(rows[r].columns[c]) >= 2
                THEN [rows[r].columns[c] EXCEPT ![2] = <<"?">>]
                ELSE rows[r].columns[c]]]]

\* C10: in the data a /timetable request answers with, the sessions are those
\* of the grid entries whose code is in the legend and whose key was not yet
\* seen, one each: day = the row's label, room = token 2 or "-", time =
\* token 3 without parentheses or "-", building = the enrichment of the room;
\* and the data is the same when token 1 of every cell is replaced.
C10_PositionalContract ==
    [][(/\ pc = "commit"
        /\ pc' = "idle"
        /\ response'.status = "success")
           => /\ AllSessions(response'.data)
                    = { ExpectedSession(GridEntries[i]) :
                          i \in { n \in DOMAIN GridEntries : Produces(n) } }
              /\ TotalSessions(response'.data)
                    = Cardinality({ n \in DOMAIN GridEntries : Produces(n) })
              /\ response'.data
                    = enriched_schedule(
                          reconcile(myTable_raw, BlankToken1(mainTable_raw)),
                          assets)]_vars

\* The answer holds a session read from a four-token cell (room S-1, the
\* parentheses gone from its time) and one read from a one-token cell.
C10_Witness ==
    /\ pc = "idle"
    /\ response.op = "timetable"
    /\ response.status = "success"
    /\ \E x \in AllSessions(response.data) :
          x.room = RoomS1 /\ x.time = <<"9">> /\ x.building = LabelS
    /\ \E x \in AllSessions(response.data) :
          x.room = <<"-">> /\ x.time = <<"-">>

(***************************************************************************)
(* Claims about room enrichment.                                           *)
(***************************************************************************)

\* The one session of a successful /timetable answer.
AnsweredSession == response.data[1].schedules[1]

HasAnsweredSession ==
    /\ response.op = "timetable"
    /\ response.status = "success"
    /\ response.data # <<>>

\* The prefix as section 4.5 takes it: the text before the first '-',
\* uppercased and trimmed.
RoomPrefix(room) == Strip(Upper(FirstPart(room)))

IsOnlineRoom(room) ==
    RoomPrefix(room) = <<"A", "R", "R">> \/ Contains(Upper(room), ONLINE)

\* The table of known prefixes.
PrefixTable ==
    [p \in { <<"S">>, <<"P">>, <<"L">>, <<"Q", "S", "2">>, <<"K", "B">>,
             <<"S", "C">>, <<"E", "N">> } |->
        CASE p = <<"S">> -> LabelS
          [] p = <<"P">> -> LabelP
          [] p = <<"L">> -> LabelL
          [] p = <<"Q", "S", "2">> -> LabelQS2
          [] p = <<"K", "B">> -> LabelKB
          [] p = <<"S", "C">> -> LabelSC
          [] p = <<"E", "N">> -> LabelEN]

\* C11: the building of a session follows the rules in the stated order: a
\* room whose prefix is ARR or whose text contains ONLINE gets the online
\* label whatever its prefix; only otherwise a prefix of the table gets the
\* label of the table; only otherwise the label is the generic one.
C11_OnlineRuleFirst ==
    HasAnsweredSession =>
        LET room == AnsweredSession.room
        IN  AnsweredSession.building =
                IF IsOnlineRoom(room) THEN LabelOnline
                ELSE IF RoomPrefix(room) \in DOMAIN PrefixTable
                THEN PrefixTable[RoomPrefix(room)]
                ELSE LabelGeneric \o RoomPrefix(room)

\* The extensions of the probe for which the room's name is that of a file
\* of the maps directory: the name leads to one of the files of the listing.
ExistingExtensions(room, files) ==
    { i \in 1..3 :
        LET name == room \o (<< <<".jpg">>, <<".png">>, <<".jpeg">> >>)[i]
        IN  /\ os_path_exists(name, files)
            /\ \E n \in files : Lookup(name, files).path = MAPS_DIR \o <<n>> }

FirstExisting(room, files) ==
    CHOOSE i \in ExistingExtensions(room, files) :
        \A j \in ExistingExtensions(room, files) : i <= j

\* C12: the map image of a session is the URL of the room's file of the
\* first extension, in the order .jpg, .png, .jpeg, that the listing holds,
\* and the empty text when it holds none of the three, whichever building
\* rule the room falls under.
C12_FirstExistingExtension ==
    HasAnsweredSession =>
        LET room == AnsweredSession.room
        IN  AnsweredSession.map_image =
                IF ExistingExtensions(room, assets) = {} THEN <<>>
                ELSE SERVER_URL \o <<"/static/maps/">> \o room
                       \o (<< <<".jpg">>, <<".png">>, <<".jpeg">> >>)
                              [FirstExisting(room, assets)]

\* A room under the online rule whose .png and .jpeg files exist, and whose
\* .jpg file does not, has been given the .png.
C12_Witness ==
    /\ HasAnsweredSession
    /\ AnsweredSession.room = <<"A", "R", "R">>
    /\ AnsweredSession.building = LabelOnline
    /\ ExistingExtensions(AnsweredSession.room, assets) = {2, 3}
    /\ AnsweredSession.map_image =
          SERVER_URL \o <<"/static/maps/">> \o <<"A", "R", "R">> \o <<".png">>

(***************************************************************************)
(* Claims about credentials, step order and exceptions.                    *)
(***************************************************************************)

\* The texts a stored schedule holds.
ScheduleTexts(schedule) ==
    UNION { { schedule[k].code, schedule[k].name_en, schedule[k].name_th }
            \cup UNION { { schedule[k].schedules[j].day,
                            schedule[k].schedules[j].time,
                            schedule[k].schedules[j].room,
                            schedule[k].schedules[j].building,
                            schedule[k].schedules[j].map_image }
                          : j \in DOMAIN schedule[k].schedules }
          : k \in DOMAIN schedule }

\* C13: no field of a stored user record holds a password submitted in a
\* request: not the username, not line_token, no text of schedule_json, and
\* last_updated is a reading of the clock.
C13_PasswordNotStored ==
    \A u \in Users :
        db[u].present =>
            /\ u \notin Passwords
            /\ db[u].line_token \notin Passwords
            /\ \A t \in ScheduleTexts(json_loads(db[u].schedule_json)) :
                   \A i \in DOMAIN t : t[i] \notin Passwords
            /\ db[u].last_updated \in 0..MaxClock

\* A record written by a /timetable request, which carried a password, and
\* by a /save-line-token request.
C13_Witness ==
    /\ db["u1"].present
    /\ db["u1"].line_token \in Tokens
    /\ json_loads(db["u1"].schedule_json) # <<>>

\* C14: the steps of a scrape keep the order of the state machine: the
\* success marker is checked after the credentials were submitted, the
\* timetable view is opened after the marker was found, the two tables are
\* read in runs that found the marker, and a run that did not find it reads
\* neither table.
C14_StepOrder ==
    /\ (pc = "check_menu" \/ flags.menu # "unchecked") => flags.submitted
    /\ (pc = "click_menu" \/ flags.opened) => flags.menu = "present"
    /\ (pc \in {"wait_table", "read_legend", "read_grid", "process"})
           => flags.opened
    /\ (flags.legendRead \/ flags.gridRead)
           => (flags.menu = "present" /\ flags.opened)
    /\ flags.menu = "absent"
           => /\ ~flags.opened /\ ~flags.legendRead /\ ~flags.gridRead
              /\ myTable_raw = LegendOf({}) /\ mainTable_raw = <<>>
              /\ pc \in {"finally", "scrape_exit", "commit"}

\* After a run that did not find the marker, a run that found it has read
\* both tables.
C14_Witness ==
    /\ lastOutcome.cls \in {"WrongPassword", "LoginFailedGeneric"}
    /\ pc = "scrape_exit"
    /\ flags.legendRead
    /\ flags.gridRead

\* C15: when a call of extract_student_info has raised an exception, at
\* whatever point of navigation or parsing, no step of the /timetable
\* request changes the users table and the request is answered with an
\* error.
C15_ExceptionReportsError ==
    [][ (/\ pc \in {"scrape_exit", "commit"}
         /\ pc' # pc
         /\ (flags.raised \/ flags.caught \/ ret.kind = "raise"))
            => /\ db' = db
               /\ pc' = "idle" => /\ response'.op = "timetable"
                                  /\ response'.to = req.username
                                  /\ response'.status = "error500" ]_vars

\* C16: one scrape reloads the page at most once, and only when the first
\* look found neither the login form nor the login affordance; it clicks
\* the affordance at most once, and never when the first look found the
\* form.
C16_ReloadAndClickOnce ==
    /\ reloads <= 1
    /\ loginClicks <= 1
    /\ (pc = "reload" \/ reloads = 1)
           => (flags.form = "absent" /\ flags.affordance = "absent")
    /\ (pc = "click_login" \/ loginClicks = 1) => flags.form = "absent"

\* A scrape that reloaded and then clicked the affordance has ended.
C16_Witness ==
    /\ pc = "scrape_exit"
    /\ reloads = 1
    /\ loginClicks = 1

\* C17: every scrape that was started reaches its end, by a return or by
\* an exception: no step of the navigator waits for ever.
C17_ScrapeTerminates == (pc = "launch") ~> (pc = "scrape_exit")

\* A scrape whose page-reload path was taken and whose grid wait timed out
\* has ended.
C17_Witness ==
    /\ pc = "scrape_exit"
    /\ reloads = 1
    /\ flags.gridTimeout

(***************************************************************************)
(* Claims about requests served at the same time.                          *)
(***************************************************************************)

\* The keys of the entries a call has gone through so far.
OwnKeys(p) ==
    { EntryKey(FlatEntries(scrapes[p].mainTable_raw)[k]) :
          k \in 1..(scrapes[p].i - 1) }

\* C18: in every interleaving of two scrapes, the keys a scrape tests its
\* entries against are those of the entries it has itself gone through,
\* and the result it returns is the result it returns when running alone.
C18_ScrapesIndependent ==
    \A p \in DOMAIN scrapes :
        /\ scrapes[p].seen = OwnKeys(p)
        /\ scrapes[p].result.kind = "return"
               => scrapes[p].result.value =
                      reconcile(scrapes[p].myTable_raw, scrapes[p].mainTable_raw)

\* Both scrapes returned a course, from pages that hold the same key.
C18_Witness ==
    /\ DOMAIN scrapes = Scrapers
    /\ \A p \in Scrapers :
           /\ scrapes[p].result.kind = "return"
           /\ scrapes[p].result.value # <<>>
    /\ scrapes[1].seen \cap scrapes[2].seen # {}

\* C19: of a /timetable request whose scrape succeeded and a
\* /save-line-token request for the same user, in whatever order their
\* steps run and whether or not the user had a record, each is answered
\* with success unless the database itself fails, and each leaves its own
\* write in the record without undoing the write of the other: the record
\* ends with the schedule of the one and the token of the other.
C19_BothWritesKept ==
    [][\A r \in Requesters :
          (CommitsOf(r) /\ ~(response'.status = "error500"
                               /\ response'.detail = "OperationalError"))
              => LET u == txn[r].username
                 IN  /\ response'.status = "success"
                     /\ db'[u].present
                     /\ txn[r].op = "timetable" =>
                            /\ db'[u].schedule_json = json_dumps(txn[r].value)
                            /\ db[u].present
                                   => db'[u].line_token = db[u].line_token
                     /\ txn[r].op = "save-line-token" =>
                            /\ db'[u].line_token = txn[r].value
                            /\ db[u].present
                                   => db'[u].schedule_json = db[u].schedule_json
      ]_vars

(***************************************************************************)
(* Claims about the daily digest.                                          *)
(***************************************************************************)

\* A stored time that is a range: the text has a '-' behind its first
\* character ("09:00-12:00"; the placeholder "-" is none).
IsRange(time) == FirstPart(time) # <<>> /\ Len(FirstPart(time)) < Len(time)

\* The start of a range, in minutes of the day.
StartOf(time) == parse_time(FirstPart(time))

\* C20: in the answer of /daily-schedule-all the classes of every listed
\* user stand in ascending order of their start times, for times stored as
\* ranges, in whatever order the sessions are stored.
C20_ClassesByStartTime ==
    digest.status = "ok" =>
        \A k \in DOMAIN digest.data :
            LET classes == digest.data[k].classes
            IN  \A i \in DOMAIN classes, j \in DOMAIN classes :
                    (i < j /\ IsRange(classes[i].time) /\ IsRange(classes[j].time))
                        => StartOf(classes[i].time) <= StartOf(classes[j].time)

====
